---------------------------- MODULE Spec2Model ----------------------------
(***************************************************************************)
(* Risk-evaluation core of the injury-risk detector: the safety rules      *)
(* R0-R4 and their reduction (app/services/safety_rules.py), the heuristic *)
(* scorer and the risk determination (app/services/risk_scorer.py), over   *)
(* the enumerations and static tables of app/schemas/enums.py and the      *)
(* configuration of app/services/scoring_config.py and app/config.py.      *)
(*                                                                         *)
(* Representation.  Enum members are their string values.  An absent enum  *)
(* value (Python None) is the string NONE; an absent number or object is   *)
(* the empty sequence Absent and a present one is a one-element sequence.  *)
(* Python floats are fixed-point integers: hrv_z and rhr_delta in tenths,  *)
(* sleep_delta in minutes, acwr in hundredths.  Score points are kept in   *)
(* half points where the 1.5 soreness factor enters and in 1/200 points    *)
(* after the intensity multiplier (hundredths) is applied; the arithmetic  *)
(* is exact where the float arithmetic of the source is not.               *)
(***************************************************************************)
EXTENDS Integers, Sequences, FiniteSets, TLC

\* ------------------------------------------------------------------------
\* Options
\* ------------------------------------------------------------------------
NONE == "None"

Absent == << >>

Some(v) == << v >>

Val(o) == o[1]

\* ------------------------------------------------------------------------
\* app/schemas/enums.py
\* ------------------------------------------------------------------------
SportTypeSeq ==
    << "run", "bike", "swim", "gym", "football", "padel", "walk", "hyrox", "other" >>

SeqToSet(s) == { s[i] : i \in 1..Len(s) }

SportType == SeqToSet(SportTypeSeq)

IntensityZone == { "Z1", "Z2", "tempo", "threshold", "VO2", "max" }

GymSplit == { "push", "pull", "legs", "upper", "lower", "full_body" }

MuscleRegionSeq ==
    << "quads", "hamstrings", "glutes", "calves", "chest", "back",
       "shoulders", "biceps", "triceps", "core", "forearms" >>

MuscleRegion == SeqToSet(MuscleRegionSeq)

RiskLevel == { "green", "yellow", "red" }

SPORT_IMPACT_MAP ==
    [ run |-> "high", bike |-> "low", swim |-> "low", gym |-> "medium",
      football |-> "very_high", padel |-> "medium", walk |-> "very_low",
      hyrox |-> "very_high", other |-> "medium" ]

SPORT_MUSCLE_MAP ==
    [ run |-> << "quads", "hamstrings", "calves", "glutes" >>,
      bike |-> << "quads", "glutes" >>,
      swim |-> << "back", "shoulders", "core" >>,
      gym |-> << >>,
      football |-> << "quads", "hamstrings", "calves", "core" >>,
      padel |-> << "shoulders", "core", "calves" >>,
      walk |-> << >>,
      hyrox |-> << "quads", "hamstrings", "glutes", "back", "shoulders", "core" >>,
      other |-> << >> ]

GYM_SPLIT_MUSCLE_MAP ==
    [ push |-> << "chest", "shoulders", "triceps" >>,
      pull |-> << "back", "biceps", "forearms" >>,
      legs |-> << "quads", "hamstrings", "glutes", "calves" >>,
      upper |-> << "chest", "back", "shoulders", "biceps", "triceps" >>,
      lower |-> << "quads", "hamstrings", "glutes", "calves" >>,
      full_body |-> MuscleRegionSeq ]

INTENSITY_ZONE_NUMERIC ==
    [ Z1 |-> 1, Z2 |-> 2, tempo |-> 3, threshold |-> 4, VO2 |-> 5, max |-> 6 ]

\* ------------------------------------------------------------------------
\* app/config.py
\* ------------------------------------------------------------------------
risk_threshold_green_max == 35

risk_threshold_yellow_max == 60

\* ------------------------------------------------------------------------
\* app/services/scoring_config.py
\* ------------------------------------------------------------------------
\* thresholds in tenths of a standard deviation
HRVConfig ==
    [ severe_threshold |-> -15, moderate_threshold |-> -10, mild_threshold |-> -5,
      severe_points |-> 25, moderate_points |-> 15, mild_points |-> 8 ]

\* thresholds in tenths of a beat per minute
RHRConfig ==
    [ severe_threshold |-> 80, moderate_threshold |-> 50, mild_threshold |-> 30,
      severe_points |-> 25, moderate_points |-> 15, mild_points |-> 8 ]

\* thresholds in minutes
SleepConfig ==
    [ severe_threshold |-> -90, moderate_threshold |-> -60, mild_threshold |-> -30,
      severe_points |-> 20, moderate_points |-> 12, mild_points |-> 5 ]

\* thresholds in hundredths
ACWRConfig ==
    [ critical_threshold |-> 150, elevated_threshold |-> 130,
      warning_threshold |-> 120, detraining_threshold |-> 80,
      critical_points |-> 25, elevated_points |-> 15,
      warning_points |-> 8, detraining_points |-> 3 ]

PainConfig ==
    [ points_per_level |-> 5,
      worsening_severe_threshold |-> 2, worsening_moderate_threshold |-> 0,
      worsening_severe_points |-> 10, worsening_moderate_points |-> 5 ]

\* general_points_per_level is 1.5, held in half points
SorenessConfig ==
    [ target_muscle_points_per_level |-> 3, general_points_per_level |-> 3 ]

ReadinessConfig ==
    [ poor_threshold |-> 4, moderate_threshold |-> 6,
      poor_points |-> 15, moderate_points |-> 8 ]

FatigueConfig ==
    [ severe_threshold |-> 7, moderate_threshold |-> 5,
      severe_points |-> 12, moderate_points |-> 5 ]

TrainingLoadConfig ==
    [ consecutive_severe_threshold |-> 5, consecutive_moderate_threshold |-> 4,
      consecutive_mild_threshold |-> 3,
      consecutive_severe_points |-> 15, consecutive_moderate_points |-> 8,
      consecutive_mild_points |-> 4 ]

MissingDataConfig == [ points_per_missing |-> 3 ]

\* scaling_factor is 0.05, held in hundredths
IntensityMultiplierConfig == [ neutral_base |-> 4, scaling_factor |-> 5 ]

\* r3_hrv_z_threshold and r3_rhr_delta_threshold in tenths
SafetyRulesConfig ==
    [ r0_pain_threshold |-> 7, r0_swelling_triggers |-> TRUE,
      r1_pain_min |-> 5, r1_pain_max |-> 6,
      r2_doms_threshold |-> 7,
      r3_hrv_z_threshold |-> -15, r3_rhr_delta_threshold |-> 50 ]

ScoringConfig ==
    [ hrv |-> HRVConfig, rhr |-> RHRConfig, sleep |-> SleepConfig,
      acwr |-> ACWRConfig, pain |-> PainConfig, soreness |-> SorenessConfig,
      readiness |-> ReadinessConfig, fatigue |-> FatigueConfig,
      training_load |-> TrainingLoadConfig, missing_data |-> MissingDataConfig,
      intensity_multiplier |-> IntensityMultiplierConfig,
      safety_rules |-> SafetyRulesConfig ]

\* get_scoring_config: the process-wide configuration, created on first use
get_scoring_config(global) == IF global = Absent THEN ScoringConfig ELSE Val(global)


\* ------------------------------------------------------------------------
\* app/ml/features.py: UserFeatures with its field defaults
\* ------------------------------------------------------------------------
EmptyMap == [ m \in {} |-> 0 ]

UserFeatures ==
    [ hrv_z |-> Absent, rhr_delta |-> Absent, sleep_delta |-> Absent,
      acwr |-> Absent, consecutive_training_days |-> 0,
      hard_session_today |-> FALSE,
      pain_score |-> 0, pain_trend_3d |-> 0, max_soreness |-> 0,
      soreness_map |-> EmptyMap, readiness |-> 7, fatigue |-> 3,
      swelling |-> FALSE,
      missing_hrv |-> TRUE, missing_sleep |-> TRUE, missing_rhr |-> TRUE,
      hrv_rmssd |-> Absent, resting_hr |-> Absent,
      sleep_duration_minutes |-> Absent,
      acute_load_7d |-> Absent, chronic_load_28d |-> Absent ]

\* dict.get(key, default)
Get(map, key, default) == IF key \in DOMAIN map THEN map[key] ELSE default

\* ------------------------------------------------------------------------
\* app/services/safety_rules.py
\* ------------------------------------------------------------------------
SafetyRuleResult(rule_id, rule_name) ==
    [ rule_id |-> rule_id, rule_name |-> rule_name, description |-> << >>,
      triggered |-> FALSE, blocked_sports |-> << >>,
      max_allowed_intensity |-> NONE, blocked_muscle_regions |-> << >>,
      override_risk_level |-> NONE ]

\* [s for s in SportType if s != SportType.WALK]
AllSportsExceptWalk == SelectSeq(SportTypeSeq, LAMBDA s : s # "walk")

\* evaluate_r0_acute_pain with the pain comparison made strict
evaluate_r0_acute_pain_strict(pain_score, swelling, config) ==
    LET result == SafetyRuleResult("R0", "Acute Red Flags")
        pain_triggers == pain_score > config.r0_pain_threshold
        swelling_triggers == swelling /\ config.r0_swelling_triggers
    IN  IF pain_triggers \/ swelling_triggers
        THEN [ result EXCEPT
                 !.triggered = TRUE,
                 !.override_risk_level = "red",
                 !.max_allowed_intensity = "Z1",
                 !.blocked_sports = AllSportsExceptWalk,
                 !.description = IF swelling THEN << "Swelling detected" >>
                                 ELSE << "Pain very high", pain_score >> ]
        ELSE result

evaluate_r0_acute_pain(pain_score, swelling, config) ==
    LET result == SafetyRuleResult("R0", "Acute Red Flags")
        pain_triggers == pain_score >= config.r0_pain_threshold
        swelling_triggers == swelling /\ config.r0_swelling_triggers
    IN  IF pain_triggers \/ swelling_triggers
        THEN [ result EXCEPT
                 !.triggered = TRUE,
                 !.override_risk_level = "red",
                 !.max_allowed_intensity = "Z1",
                 !.blocked_sports = AllSportsExceptWalk,
                 !.description = IF swelling THEN << "Swelling detected" >>
                                 ELSE << "Pain very high", pain_score >> ]
        ELSE result

\* evaluate_r1_moderate_pain_impact with the override set whatever the planned sport
evaluate_r1_always_yellow(pain_score, planned_sport, config, high_impact) ==
    LET result == SafetyRuleResult("R1", "Moderate Pain - No Impact Sports")
    IN  IF config.r1_pain_min <= pain_score /\ pain_score <= config.r1_pain_max
        THEN [ result EXCEPT
                 !.triggered = TRUE,
                 !.blocked_sports = high_impact,
                 !.max_allowed_intensity = "Z2",
                 !.description = << "Moderate pain", pain_score >>,
                 !.override_risk_level = "yellow" ]
        ELSE result

\* high_impact is the module-level list HIGH_IMPACT_SPORTS at the time of the call
evaluate_r1_moderate_pain_impact(pain_score, planned_sport, config, high_impact) ==
    LET result == SafetyRuleResult("R1", "Moderate Pain - No Impact Sports")
    IN  IF config.r1_pain_min <= pain_score /\ pain_score <= config.r1_pain_max
        THEN [ result EXCEPT
                 !.triggered = TRUE,
                 !.blocked_sports = high_impact,
                 !.max_allowed_intensity = "Z2",
                 !.description = << "Moderate pain", pain_score >>,
                 !.override_risk_level =
                     IF planned_sport \in SeqToSet(high_impact) THEN "yellow" ELSE NONE ]
        ELSE result

\* TargetMuscles with the split ignored
TargetMusclesOfSportOnly(planned_sport, planned_gym_split) ==
    SPORT_MUSCLE_MAP[planned_sport]

\* target muscle groups of the planned activity
TargetMuscles(planned_sport, planned_gym_split) ==
    IF planned_sport = "gym" /\ planned_gym_split # NONE
    THEN GYM_SPLIT_MUSCLE_MAP[planned_gym_split]
    ELSE SPORT_MUSCLE_MAP[planned_sport]

evaluate_r2_doms(soreness_map, planned_sport, planned_gym_split, config) ==
    LET result == SafetyRuleResult("R2", "DOMS - Muscle Group Protection")
        target_muscles == TargetMuscles(planned_sport, planned_gym_split)
        high_soreness_muscles ==
            SelectSeq(target_muscles,
                      LAMBDA muscle : Get(soreness_map, muscle, 0) >= config.r2_doms_threshold)
    IN  IF high_soreness_muscles # << >>
        THEN [ result EXCEPT
                 !.blocked_muscle_regions = high_soreness_muscles,
                 !.triggered = TRUE,
                 !.description = << "Severe muscle soreness" >> \o high_soreness_muscles,
                 !.override_risk_level = "yellow" ]
        ELSE result

\* evaluate_r3_recovery_markers with a single marker treated like both
evaluate_r3_single_as_both(hrv_z, rhr_delta, config) ==
    LET result == SafetyRuleResult("R3", "Poor Recovery Markers")
        hrv_poor == hrv_z # Absent /\ Val(hrv_z) < config.r3_hrv_z_threshold
        rhr_elevated == rhr_delta # Absent /\ Val(rhr_delta) > config.r3_rhr_delta_threshold
    IN  IF hrv_poor \/ rhr_elevated
        THEN [ result EXCEPT
                 !.triggered = TRUE,
                 !.max_allowed_intensity = "Z2",
                 !.description = << "HRV below baseline and resting heart rate elevated" >>,
                 !.override_risk_level = "yellow" ]
        ELSE result

evaluate_r3_recovery_markers(hrv_z, rhr_delta, config) ==
    LET result == SafetyRuleResult("R3", "Poor Recovery Markers")
        hrv_poor == hrv_z # Absent /\ Val(hrv_z) < config.r3_hrv_z_threshold
        rhr_elevated == rhr_delta # Absent /\ Val(rhr_delta) > config.r3_rhr_delta_threshold
    IN  IF hrv_poor /\ rhr_elevated
        THEN [ result EXCEPT
                 !.triggered = TRUE,
                 !.max_allowed_intensity = "Z2",
                 !.description = << "HRV below baseline and resting heart rate elevated" >>,
                 !.override_risk_level = "yellow" ]
        ELSE IF hrv_poor
        THEN [ result EXCEPT
                 !.triggered = TRUE,
                 !.max_allowed_intensity = "tempo",
                 !.description = << "HRV below baseline" >> ]
        ELSE IF rhr_elevated
        THEN [ result EXCEPT
                 !.triggered = TRUE,
                 !.max_allowed_intensity = "tempo",
                 !.description = << "Resting heart rate elevated" >> ]
        ELSE result

hard_intensities == { "threshold", "VO2", "max" }

\* evaluate_r4_two_a_day without the check of the session already done today
evaluate_r4_any_hard_plan(hard_session_today, planned_intensity) ==
    LET result == SafetyRuleResult("R4", "Two-a-Day Limit")
    IN  IF planned_intensity \in hard_intensities
        THEN [ result EXCEPT
                 !.triggered = TRUE,
                 !.max_allowed_intensity = "Z2",
                 !.description = << "Already completed a hard session today" >>,
                 !.override_risk_level = "yellow" ]
        ELSE result

evaluate_r4_two_a_day(hard_session_today, planned_intensity) ==
    LET result == SafetyRuleResult("R4", "Two-a-Day Limit")
    IN  IF hard_session_today /\ planned_intensity \in hard_intensities
        THEN [ result EXCEPT
                 !.triggered = TRUE,
                 !.max_allowed_intensity = "Z2",
                 !.description = << "Already completed a hard session today" >>,
                 !.override_risk_level = "yellow" ]
        ELSE result

_intensity_order(intensity) ==
    IF intensity \in IntensityZone THEN INTENSITY_ZONE_NUMERIC[intensity] ELSE 3

_risk_order(risk) ==
    CASE risk = "green" -> 1
      [] risk = "yellow" -> 2
      [] risk = "red" -> 3
      [] OTHER -> 1

\* the accumulators before the loop over the triggered rules
CombineStart ==
    [ blocked_sports |-> << >>, blocked_muscles |-> << >>,
      max_intensity |-> NONE, override_level |-> NONE ]

\* CombineStep keeping the first cap and the first override it meets
CombineStepFirstWins(acc, rule) ==
    [ blocked_sports |-> acc.blocked_sports \o rule.blocked_sports,
      blocked_muscles |-> acc.blocked_muscles \o rule.blocked_muscle_regions,
      max_intensity |->
          IF rule.max_allowed_intensity # NONE /\ acc.max_intensity = NONE
          THEN rule.max_allowed_intensity
          ELSE acc.max_intensity,
      override_level |->
          IF rule.override_risk_level # NONE /\ acc.override_level = NONE
          THEN rule.override_risk_level
          ELSE acc.override_level ]

\* one iteration of the loop over the triggered rules
CombineStep(acc, rule) ==
    [ blocked_sports |-> acc.blocked_sports \o rule.blocked_sports,
      blocked_muscles |-> acc.blocked_muscles \o rule.blocked_muscle_regions,
      max_intensity |->
          IF rule.max_allowed_intensity # NONE
          THEN IF acc.max_intensity = NONE
               THEN rule.max_allowed_intensity
               ELSE IF _intensity_order(rule.max_allowed_intensity)
                         < _intensity_order(acc.max_intensity)
                    THEN rule.max_allowed_intensity
                    ELSE acc.max_intensity
          ELSE acc.max_intensity,
      override_level |->
          IF rule.override_risk_level # NONE
          THEN IF acc.override_level = NONE
               THEN rule.override_risk_level
               ELSE IF _risk_order(rule.override_risk_level)
                         > _risk_order(acc.override_level)
                    THEN rule.override_risk_level
                    ELSE acc.override_level
          ELSE acc.override_level ]

RECURSIVE CombineLoop(_, _)
CombineLoop(results, acc) ==
    IF results = << >> THEN acc
    ELSE CombineLoop(Tail(results), CombineStep(acc, Head(results)))

\* the SafetyEvaluation built from the list of triggered results;
\* list(set(...)) is held as a set
SafetyEvaluation(results) ==
    LET acc == CombineLoop(results, CombineStart)
    IN  [ triggered_rules |-> results,
          max_allowed_intensity |-> acc.max_intensity,
          blocked_sports |-> SeqToSet(acc.blocked_sports),
          blocked_muscle_regions |-> SeqToSet(acc.blocked_muscles),
          override_risk_level |-> acc.override_level ]

any_triggered(evaluation) == Len(evaluation.triggered_rules) > 0

evaluate_all_safety_rules(pain_score, swelling, soreness_map, planned_sport, planned_gym_split, planned_intensity, hrv_z, rhr_delta, hard_session_today, config, high_impact) ==
    LET r0 == evaluate_r0_acute_pain(pain_score, swelling, config)
        r1 == evaluate_r1_moderate_pain_impact(pain_score, planned_sport, config, high_impact)
        r2 == evaluate_r2_doms(soreness_map, planned_sport, planned_gym_split, config)
        r3 == evaluate_r3_recovery_markers(hrv_z, rhr_delta, config)
        r4 == evaluate_r4_two_a_day(hard_session_today, planned_intensity)
        results == SelectSeq(<< r0, r1, r2, r3, r4 >>, LAMBDA r : r.triggered)
    IN  SafetyEvaluation(results)

\* ------------------------------------------------------------------------
\* app/ml/features.py: supporting pure functions
\* ------------------------------------------------------------------------
Max(a, b) == IF a >= b THEN a ELSE b

Min(a, b) == IF a <= b THEN a ELSE b

RECURSIVE MaxSorenessLoop(_, _, _)
MaxSorenessLoop(target_muscles, soreness_map, max_soreness) ==
    IF target_muscles = << >> THEN max_soreness
    ELSE MaxSorenessLoop(Tail(target_muscles), soreness_map,
                         Max(max_soreness, Get(soreness_map, Head(target_muscles), 0)))

get_soreness_in_target_muscles(soreness_map, sport_type, gym_split) ==
    LET target_muscles == IF sport_type = "gym" /\ gym_split # NONE
                          THEN GYM_SPLIT_MUSCLE_MAP[gym_split]
                          ELSE SPORT_MUSCLE_MAP[sport_type]
    IN  MaxSorenessLoop(target_muscles, soreness_map, 0)

ImpactScores ==
    [ very_low |-> 1, low |-> 2, medium |-> 3, high |-> 4, very_high |-> 5 ]

get_sport_impact_score(sport_type) ==
    LET impact == IF sport_type \in SportType THEN SPORT_IMPACT_MAP[sport_type]
                  ELSE "medium"
    IN  ImpactScores[impact]

get_intensity_score(intensity) ==
    IF intensity = NONE THEN 3
    ELSE IF intensity \in IntensityZone THEN INTENSITY_ZONE_NUMERIC[intensity]
    ELSE 3

\* ------------------------------------------------------------------------
\* app/services/risk_scorer.py
\* ------------------------------------------------------------------------
ThresholdResult(contribution, severity, triggered) ==
    [ contribution |-> contribution, severity |-> severity, triggered |-> triggered ]

evaluate_lower_threshold(value, severe_threshold, moderate_threshold, mild_threshold, severe_points, moderate_points, mild_points) ==
    IF value = Absent THEN ThresholdResult(0, "none", FALSE)
    ELSE IF Val(value) < severe_threshold THEN ThresholdResult(severe_points, "severe", TRUE)
    ELSE IF Val(value) < moderate_threshold
         THEN ThresholdResult(moderate_points, "moderate", TRUE)
    ELSE IF Val(value) < mild_threshold THEN ThresholdResult(mild_points, "mild", TRUE)
    ELSE ThresholdResult(0, "none", FALSE)

evaluate_upper_threshold(value, severe_threshold, moderate_threshold, mild_threshold, severe_points, moderate_points, mild_points) ==
    IF value = Absent THEN ThresholdResult(0, "none", FALSE)
    ELSE IF Val(value) > severe_threshold THEN ThresholdResult(severe_points, "severe", TRUE)
    ELSE IF Val(value) > moderate_threshold
         THEN ThresholdResult(moderate_points, "moderate", TRUE)
    ELSE IF Val(value) > mild_threshold THEN ThresholdResult(mild_points, "mild", TRUE)
    ELSE ThresholdResult(0, "none", FALSE)

\* AcwrContribution with inclusive comparisons
AcwrContributionInclusive(acwr, cfg) ==
    IF acwr # Absent
    THEN IF Val(acwr) >= cfg.acwr.critical_threshold THEN cfg.acwr.critical_points
         ELSE IF Val(acwr) >= cfg.acwr.elevated_threshold THEN cfg.acwr.elevated_points
         ELSE IF Val(acwr) >= cfg.acwr.warning_threshold THEN cfg.acwr.warning_points
         ELSE IF Val(acwr) <= cfg.acwr.detraining_threshold THEN cfg.acwr.detraining_points
         ELSE 0
    ELSE 0

\* the ACWR branch of _calculate_heuristic_score; the breakdown field starts at 0
AcwrContribution(acwr, cfg) ==
    IF acwr # Absent
    THEN IF Val(acwr) > cfg.acwr.critical_threshold THEN cfg.acwr.critical_points
         ELSE IF Val(acwr) > cfg.acwr.elevated_threshold THEN cfg.acwr.elevated_points
         ELSE IF Val(acwr) > cfg.acwr.warning_threshold THEN cfg.acwr.warning_points
         ELSE IF Val(acwr) < cfg.acwr.detraining_threshold THEN cfg.acwr.detraining_points
         ELSE 0
    ELSE 0

\* Python round() of the rational n/d, d > 0: to the nearest integer, ties to even
Round(n, d) ==
    LET q == n \div d
        r == n % d
    IN  IF 2 * r < d THEN q
        ELSE IF 2 * r > d THEN q + 1
        ELSE IF q % 2 = 0 THEN q ELSE q + 1

\* MissingCount looking at the HRV flag alone
MissingCountHrvOnly(features) == IF features.missing_hrv THEN 1 ELSE 0

\* sum([features.missing_hrv, features.missing_sleep, features.missing_rhr])
MissingCount(features) ==
    (IF features.missing_hrv THEN 1 ELSE 0)
    + (IF features.missing_sleep THEN 1 ELSE 0)
    + (IF features.missing_rhr THEN 1 ELSE 0)

\* ClampScore without the upper clamp
ClampScoreFloorOnly(score) == Max(0, Round(score, 200))

\* min(100, max(0, round(score))), score in 1/200 points
ClampScore(score) == Min(100, Max(0, Round(score, 200)))

\* Returns the ScoreBreakdown; the float returned beside it is its final_score.
\* Contributions are in points, general_soreness_contribution and base_score in
\* half points, intensity_multiplier in hundredths.
_calculate_heuristic_score(cfg, features, planned_sport, planned_intensity, planned_gym_split) ==
    LET hrv_result ==
            evaluate_lower_threshold(features.hrv_z,
                cfg.hrv.severe_threshold, cfg.hrv.moderate_threshold, cfg.hrv.mild_threshold,
                cfg.hrv.severe_points, cfg.hrv.moderate_points, cfg.hrv.mild_points)
        rhr_result ==
            evaluate_upper_threshold(features.rhr_delta,
                cfg.rhr.severe_threshold, cfg.rhr.moderate_threshold, cfg.rhr.mild_threshold,
                cfg.rhr.severe_points, cfg.rhr.moderate_points, cfg.rhr.mild_points)
        sleep_result ==
            evaluate_lower_threshold(features.sleep_delta,
                cfg.sleep.severe_threshold, cfg.sleep.moderate_threshold,
                cfg.sleep.mild_threshold,
                cfg.sleep.severe_points, cfg.sleep.moderate_points, cfg.sleep.mild_points)
        acwr_contribution == AcwrContribution(features.acwr, cfg)
        pain_contribution == features.pain_score * cfg.pain.points_per_level
        pain_trend_result ==
            evaluate_upper_threshold(Some(features.pain_trend_3d),
                cfg.pain.worsening_severe_threshold, cfg.pain.worsening_moderate_threshold, 0,
                cfg.pain.worsening_severe_points, cfg.pain.worsening_moderate_points, 0)
        target_soreness ==
            get_soreness_in_target_muscles(features.soreness_map, planned_sport,
                                           planned_gym_split)
        target_soreness_contribution ==
            target_soreness * cfg.soreness.target_muscle_points_per_level
        general_soreness_contribution ==
            features.max_soreness * cfg.soreness.general_points_per_level
        readiness_result ==
            evaluate_lower_threshold(Some(features.readiness),
                cfg.readiness.poor_threshold, cfg.readiness.moderate_threshold, 0,
                cfg.readiness.poor_points, cfg.readiness.moderate_points, 0)
        fatigue_result ==
            evaluate_upper_threshold(Some(features.fatigue),
                cfg.fatigue.severe_threshold, cfg.fatigue.moderate_threshold, 0,
                cfg.fatigue.severe_points, cfg.fatigue.moderate_points, 0)
        consecutive_result ==
            evaluate_upper_threshold(Some(features.consecutive_training_days),
                cfg.training_load.consecutive_severe_threshold,
                cfg.training_load.consecutive_moderate_threshold,
                cfg.training_load.consecutive_mild_threshold,
                cfg.training_load.consecutive_severe_points,
                cfg.training_load.consecutive_moderate_points,
                cfg.training_load.consecutive_mild_points)
        base_score ==
            2 * ( hrv_result.contribution + rhr_result.contribution
                  + sleep_result.contribution + acwr_contribution + pain_contribution
                  + pain_trend_result.contribution + target_soreness_contribution
                  + readiness_result.contribution + fatigue_result.contribution
                  + consecutive_result.contribution )
            + general_soreness_contribution
        impact_score == get_sport_impact_score(planned_sport)
        intensity_score == get_intensity_score(planned_intensity)
        intensity_multiplier ==
            100 + (impact_score + intensity_score - cfg.intensity_multiplier.neutral_base)
                  * cfg.intensity_multiplier.scaling_factor
        missing_data_penalty == MissingCount(features) * cfg.missing_data.points_per_missing
        score == base_score * intensity_multiplier + 200 * missing_data_penalty
    IN  [ hrv_contribution |-> hrv_result.contribution,
          rhr_contribution |-> rhr_result.contribution,
          sleep_contribution |-> sleep_result.contribution,
          acwr_contribution |-> acwr_contribution,
          pain_contribution |-> pain_contribution,
          pain_trend_contribution |-> pain_trend_result.contribution,
          target_soreness_contribution |-> target_soreness_contribution,
          general_soreness_contribution |-> general_soreness_contribution,
          readiness_contribution |-> readiness_result.contribution,
          fatigue_contribution |-> fatigue_result.contribution,
          consecutive_days_contribution |-> consecutive_result.contribution,
          missing_data_penalty |-> missing_data_penalty,
          base_score |-> base_score,
          intensity_multiplier |-> intensity_multiplier,
          final_score |-> ClampScore(score) ]

\* OverrideScore setting the score to the floor of the override band
OverrideScoreToFloor(heuristic_score, override_risk_level) ==
    IF override_risk_level = "red"
    THEN risk_threshold_yellow_max + 1
    ELSE IF override_risk_level = "yellow"
    THEN risk_threshold_green_max + 1
    ELSE heuristic_score

\* the score after the safety override
OverrideScore(heuristic_score, override_risk_level) ==
    IF override_risk_level = "red"
    THEN Max(heuristic_score, risk_threshold_yellow_max + 1)
    ELSE IF override_risk_level = "yellow"
    THEN Max(heuristic_score, risk_threshold_green_max + 1)
    ELSE heuristic_score

\* LevelOfScore with strict comparisons
LevelOfScoreStrict(risk_score) ==
    IF risk_score < risk_threshold_green_max THEN "green"
    ELSE IF risk_score < risk_threshold_yellow_max THEN "yellow"
    ELSE "red"

\* the level of a score
LevelOfScore(risk_score) ==
    IF risk_score <= risk_threshold_green_max THEN "green"
    ELSE IF risk_score <= risk_threshold_yellow_max THEN "yellow"
    ELSE "red"

_determine_risk(heuristic_score, safety_eval) ==
    LET risk_score == OverrideScore(heuristic_score, safety_eval.override_risk_level)
    IN  [ risk_score |-> risk_score, risk_level |-> LevelOfScore(risk_score) ]

\* ------------------------------------------------------------------------
\* app/ml/features.py: FeatureBuilder
\*
\* The database of one user as the queries of the builder see it.  A day is
\* its distance in days before the target date (0 is the target date).
\*   metrics   the daily_metrics row of the target date, or Absent
\*   symptoms  the symptoms table ordered by timestamp ascending
\*   workouts  the workouts table ordered by start_time descending
\* hrv values are in milliseconds, heart rates in beats per minute, sleep in
\* minutes, trimp in whole units, the stored acwr in hundredths.
\* ------------------------------------------------------------------------
\* Python truthiness of an optional number
Truthy(o) == o # Absent /\ Val(o) # 0

\* _add_daily_metrics: the raw values and the stored load metrics
CopyMetrics(features, metrics) ==
    [ features EXCEPT
        !.hrv_rmssd = metrics.hrv_rmssd,
        !.resting_hr = metrics.resting_hr,
        !.sleep_duration_minutes = metrics.sleep_duration_minutes,
        !.acute_load_7d = metrics.acute_load_7d,
        !.chronic_load_28d = metrics.chronic_load_28d,
        !.acwr = metrics.acwr ]

\* _add_daily_metrics: hrv_z, in tenths
NormalizeHrv(features, metrics) ==
    IF metrics.hrv_rmssd # Absent /\ metrics.hrv_baseline_mean # Absent
    THEN [ features EXCEPT
             !.missing_hrv = FALSE,
             !.hrv_z =
                 IF Truthy(metrics.hrv_baseline_std) /\ Val(metrics.hrv_baseline_std) > 0
                 THEN Some((10 * (Val(metrics.hrv_rmssd) - Val(metrics.hrv_baseline_mean)))
                           \div Val(metrics.hrv_baseline_std))
                 ELSE Some(0) ]
    ELSE features

\* _add_daily_metrics: rhr_delta, in tenths
NormalizeRhr(features, metrics) ==
    IF metrics.resting_hr # Absent /\ metrics.rhr_baseline_mean # Absent
    THEN [ features EXCEPT
             !.missing_rhr = FALSE,
             !.rhr_delta = Some(10 * (Val(metrics.resting_hr)
                                      - Val(metrics.rhr_baseline_mean))) ]
    ELSE features

\* _add_daily_metrics: sleep_delta, in minutes
NormalizeSleep(features, metrics) ==
    IF metrics.sleep_duration_minutes # Absent /\ metrics.sleep_baseline_mean # Absent
    THEN [ features EXCEPT
             !.missing_sleep = FALSE,
             !.sleep_delta = Some(Val(metrics.sleep_duration_minutes)
                                  - Val(metrics.sleep_baseline_mean)) ]
    ELSE features

_add_daily_metrics(features, db) ==
    IF db.metrics = Absent THEN features
    ELSE NormalizeSleep(
             NormalizeRhr(
                 NormalizeHrv(CopyMetrics(features, Val(db.metrics)), Val(db.metrics)),
                 Val(db.metrics)),
             Val(db.metrics))

\* max(soreness_map.values()) of a non-empty map
MaxValue(map) == CHOOSE x \in { map[k] : k \in DOMAIN map } : \A k \in DOMAIN map : map[k] <= x

\* "symptom.soreness_map or {}"
SorenessMapOf(symptom) ==
    IF symptom.soreness_map = Absent THEN EmptyMap ELSE Val(symptom.soreness_map)

\* _add_symptom_features: the most recent entry of the target date
CopySymptom(features, symptom) ==
    [ features EXCEPT
        !.pain_score = symptom.pain_score,
        !.readiness = symptom.readiness,
        !.fatigue = symptom.fatigue,
        !.swelling = symptom.swelling,
        !.soreness_map = SorenessMapOf(symptom),
        !.max_soreness = IF DOMAIN SorenessMapOf(symptom) # {}
                         THEN MaxValue(SorenessMapOf(symptom))
                         ELSE features.max_soreness ]

\* _add_symptom_features: the pain trend over the entries of the last 3 days
PainTrend(features, recent_symptoms) ==
    IF Len(recent_symptoms) >= 2
    THEN [ features EXCEPT
             !.pain_trend_3d = recent_symptoms[Len(recent_symptoms)].pain_score
                               - recent_symptoms[1].pain_score ]
    ELSE features

\* x[-1]
Last(x) == x[Len(x)]

_add_symptom_features(features, db) ==
    PainTrend(
        IF SelectSeq(db.symptoms, LAMBDA s : s.day = 0) # << >>
        THEN CopySymptom(features, Last(SelectSeq(db.symptoms, LAMBDA s : s.day = 0)))
        ELSE features,
        SelectSeq(db.symptoms, LAMBDA s : s.day >= 0 /\ s.day <= 3))

\* _count_consecutive_days: the loop stepping back from yesterday
RECURSIVE CountConsecutiveLoop(_, _, _)
CountConsecutiveLoop(workout_dates, check_date, count) ==
    IF check_date \in workout_dates
    THEN CountConsecutiveLoop(workout_dates, check_date + 1, count + 1)
    ELSE count

_count_consecutive_days(workouts) ==
    CountConsecutiveLoop({ workouts[i].day : i \in 1..Len(workouts) }, 1, 0)

\* _calculate_load: "start <= workout.start_time.date() <= target_date"
RECURSIVE _calculate_load(_, _)
_calculate_load(workouts, days) ==
    IF workouts = << >> THEN 0
    ELSE LET workout == Head(workouts)
         IN  (IF workout.day <= days /\ workout.day >= 0
              THEN (IF workout.trimp = Absent THEN 0 ELSE Val(workout.trimp))
              ELSE 0)
             + _calculate_load(Tail(workouts), days)

\* _add_load_features with the two windows exchanged
DeriveLoadExchanged(features, workouts) ==
    LET acute == IF features.acute_load_7d = Absent
                 THEN Some(_calculate_load(workouts, 28))
                 ELSE features.acute_load_7d
        chronic == IF features.chronic_load_28d = Absent
                   THEN Some(_calculate_load(workouts, 7))
                   ELSE features.chronic_load_28d
    IN  [ features EXCEPT
            !.acute_load_7d = acute,
            !.chronic_load_28d = chronic,
            !.acwr = IF features.acwr = Absent /\ Truthy(chronic) /\ Val(chronic) > 0
                     THEN Some((100 * Val(acute)) \div Val(chronic))
                     ELSE features.acwr ]

\* _add_load_features: the load metrics the daily aggregate did not bring.
\* The derived acwr is in hundredths, rounded down.
DeriveLoad(features, workouts) ==
    LET acute == IF features.acute_load_7d = Absent
                 THEN Some(_calculate_load(workouts, 7))
                 ELSE features.acute_load_7d
        chronic == IF features.chronic_load_28d = Absent
                   THEN Some(_calculate_load(workouts, 28))
                   ELSE features.chronic_load_28d
    IN  [ features EXCEPT
            !.acute_load_7d = acute,
            !.chronic_load_28d = chronic,
            !.acwr = IF features.acwr = Absent /\ Truthy(chronic) /\ Val(chronic) > 0
                     THEN Some((100 * Val(acute)) \div Val(chronic))
                     ELSE features.acwr ]

\* _add_load_features on the workouts the query returned
AddLoad(features, workouts) ==
    IF workouts = << >> THEN features
    ELSE DeriveLoad(
             [ features EXCEPT
                 !.consecutive_training_days = _count_consecutive_days(workouts),
                 !.hard_session_today =
                     \/ features.hard_session_today
                     \/ \E i \in 1..Len(workouts) :
                          /\ workouts[i].day = 0
                          /\ workouts[i].intensity_zone \in hard_intensities ],
             workouts)

\* _add_load_features; the query keeps the workouts of the last 28 days
_add_load_features(features, db) ==
    AddLoad(features, SelectSeq(db.workouts, LAMBDA w : w.day >= 0 /\ w.day <= 28))

\* build_features(date.today())
build_features(db) ==
    _add_load_features(_add_symptom_features(_add_daily_metrics(UserFeatures, db), db), db)


\* ------------------------------------------------------------------------
\* app/services/recommender.py
\*
\* A reason is the sequence of its sentence and the sport names put into it.
\* ------------------------------------------------------------------------
Recommendation(sport_type, duration_minutes) ==
    [ sport_type |-> sport_type, duration_minutes |-> duration_minutes,
      intensity |-> NONE, gym_split |-> NONE, intensity_level |-> NONE,
      reason |-> << >>, is_original_plan_modified |-> FALSE ]

\* RecommendationEngine.__init__; blocked_muscle_regions is a set or Absent
RecommendationEngine(risk_level, safety_eval, blocked_muscle_regions) ==
    [ risk_level |-> risk_level, safety_eval |-> safety_eval,
      blocked_muscles |-> IF blocked_muscle_regions = Absent THEN {}
                          ELSE Val(blocked_muscle_regions) ]

\* _reduce_intensity stepping from Z1 back up to Z2
_reduce_intensity_wrapping(intensity) ==
    IF intensity = NONE THEN "Z2"
    ELSE CASE intensity = "max" -> "VO2"
           [] intensity = "VO2" -> "threshold"
           [] intensity = "threshold" -> "tempo"
           [] intensity = "tempo" -> "Z2"
           [] intensity = "Z2" -> "Z1"
           [] intensity = "Z1" -> "Z2"
           [] OTHER -> "Z2"

_reduce_intensity(intensity) ==
    IF intensity = NONE THEN "Z2"
    ELSE CASE intensity = "max" -> "VO2"
           [] intensity = "VO2" -> "threshold"
           [] intensity = "threshold" -> "tempo"
           [] intensity = "tempo" -> "Z2"
           [] intensity = "Z2" -> "Z1"
           [] intensity = "Z1" -> "Z1"
           [] OTHER -> "Z2"

\* the first sport of a list that is not blocked, or the default
RECURSIVE FirstNotBlocked(_, _, _)
FirstNotBlocked(sports, blocked_sports, default) ==
    IF sports = << >> THEN default
    ELSE IF Head(sports) \notin blocked_sports THEN Head(sports)
    ELSE FirstNotBlocked(Tail(sports), blocked_sports, default)

\* the substitution table of _get_alternative_sport
alternatives ==
    [ run |-> "bike", bike |-> "swim", swim |-> "bike", gym |-> "bike",
      football |-> "bike", padel |-> "swim", hyrox |-> "bike", walk |-> "swim" ]

_get_alternative_sport(self, current) ==
    LET alt == Get(alternatives, current, "bike")
    IN  IF alt \in self.safety_eval.blocked_sports
        THEN FirstNotBlocked(<< "bike", "swim", "walk" >>,
                             self.safety_eval.blocked_sports, alt)
        ELSE alt

_get_low_impact_sport(self) ==
    FirstNotBlocked(<< "bike", "swim", "walk", "gym" >>,
                    self.safety_eval.blocked_sports, "walk")

_get_alternative_gym_split(current) ==
    IF current = NONE THEN "upper"
    ELSE CASE current = "push" -> "pull"
           [] current = "pull" -> "push"
           [] current = "legs" -> "upper"
           [] current = "upper" -> "lower"
           [] current = "lower" -> "upper"
           [] current = "full_body" -> "upper"
           [] OTHER -> "upper"

_gym_split_uses_blocked_muscles(self, split) ==
    LET split_muscles == Get(GYM_SPLIT_MUSCLE_MAP, split, << >>)
    IN  \E i \in 1..Len(split_muscles) : split_muscles[i] \in self.blocked_muscles

RECURSIVE SafeSplitLoop(_, _)
SafeSplitLoop(self, splits) ==
    IF splits = << >> THEN "upper"
    ELSE IF ~ _gym_split_uses_blocked_muscles(self, Head(splits)) THEN Head(splits)
    ELSE SafeSplitLoop(self, Tail(splits))

_get_safe_gym_split(self) == SafeSplitLoop(self, << "push", "pull", "upper", "legs" >>)

\* int(planned_duration * 0.8) of a duration that is not negative
ModifiedDuration(planned_duration) == (4 * planned_duration) \div 5

\* Recommendation A of the yellow branch
YellowRecommendationA(self, planned_sport, planned_duration, planned_intensity, planned_gym_split) ==
    LET modified_duration == ModifiedDuration(planned_duration)
        modified_intensity == _reduce_intensity(planned_intensity)
    IN  IF planned_sport \in self.safety_eval.blocked_sports
        THEN LET alt_sport == _get_low_impact_sport(self)
             IN  [ Recommendation(alt_sport, modified_duration) EXCEPT
                     !.intensity = modified_intensity,
                     !.reason = << "Originalplan angepasst: statt", alt_sport, planned_sport >>,
                     !.is_original_plan_modified = TRUE ]
        ELSE LET final_gym_split ==
                     IF planned_sport = "gym" /\ planned_gym_split # NONE
                        /\ _gym_split_uses_blocked_muscles(self, planned_gym_split)
                     THEN _get_safe_gym_split(self)
                     ELSE planned_gym_split
             IN  [ Recommendation(planned_sport, modified_duration) EXCEPT
                     !.intensity = modified_intensity,
                     !.gym_split = final_gym_split,
                     !.reason = << "Originalplan angepasst: Reduzierte Dauer und Intensitaet" >>,
                     !.is_original_plan_modified = TRUE ]

_yellow_recommendations(self, planned_sport, planned_duration, planned_intensity, planned_gym_split) ==
    LET rec_a == YellowRecommendationA(self, planned_sport, planned_duration,
                                       planned_intensity, planned_gym_split)
        low_impact == _get_low_impact_sport(self)
        rec_b == [ Recommendation(low_impact, 45) EXCEPT
                     !.intensity = IF low_impact # "gym" THEN "Z2" ELSE NONE,
                     !.gym_split = IF low_impact = "gym" THEN _get_safe_gym_split(self)
                                   ELSE NONE,
                     !.intensity_level = IF low_impact = "gym" THEN "light" ELSE NONE,
                     !.reason = << "Schonende Alternative", low_impact >> ]
    IN  << rec_a, rec_b >>

_green_recommendations(self, planned_sport, planned_duration, planned_intensity, planned_gym_split) ==
    IF planned_sport \in self.safety_eval.blocked_sports
    THEN _yellow_recommendations(self, planned_sport, planned_duration,
                                 planned_intensity, planned_gym_split)
    ELSE LET rec_a == [ Recommendation(planned_sport, planned_duration) EXCEPT
                          !.intensity = planned_intensity,
                          !.gym_split = planned_gym_split,
                          !.reason = << "Training wie geplant moeglich" >> ]
             alt_sport == _get_alternative_sport(self, planned_sport)
             rec_b == [ Recommendation(alt_sport, planned_duration) EXCEPT
                          !.intensity = IF alt_sport # "gym" THEN planned_intensity
                                        ELSE NONE,
                          !.gym_split = IF alt_sport = "gym"
                                        THEN _get_alternative_gym_split(planned_gym_split)
                                        ELSE NONE,
                          !.reason = << "Alternative", alt_sport >> ]
         IN  << rec_a, rec_b >>

\* _red_recommendations capping the walk at the planned duration
_red_recommendations_capped(planned_duration) ==
    << [ Recommendation("walk", Min(30, planned_duration)) EXCEPT
           !.intensity = "Z1", !.reason = << "Erholung empfohlen" >> ],
       [ Recommendation("swim", 20) EXCEPT
           !.intensity = "Z1", !.reason = << "Alternative: Lockeres Schwimmen" >> ] >>

_red_recommendations(planned_duration) ==
    << [ Recommendation("walk", 30) EXCEPT
           !.intensity = "Z1", !.reason = << "Erholung empfohlen" >> ],
       [ Recommendation("swim", 20) EXCEPT
           !.intensity = "Z1", !.reason = << "Alternative: Lockeres Schwimmen" >> ] >>

generate_recommendations(self, planned_sport, planned_duration, planned_intensity, planned_gym_split) ==
    IF self.risk_level = "green"
    THEN _green_recommendations(self, planned_sport, planned_duration,
                                planned_intensity, planned_gym_split)
    ELSE IF self.risk_level = "yellow"
    THEN _yellow_recommendations(self, planned_sport, planned_duration,
                                 planned_intensity, planned_gym_split)
    ELSE _red_recommendations(planned_duration)

\* ------------------------------------------------------------------------
\* app/services/risk_scorer.py: evaluate_session and its explanation stages
\*
\* A description is the sequence of its sentence and of the values put into
\* it; an explanation is the record of the parts that are joined into it.
\* ------------------------------------------------------------------------
Factor(name, contribution, description, value) ==
    [ name |-> name, contribution |-> contribution,
      description |-> description, value |-> value ]

\* a one-element list if the condition holds, the empty list otherwise
Append1(condition, factor) == IF condition THEN << factor >> ELSE << >>

\* factors.sort(key=contribution, reverse=True): stable, descending
RECURSIVE InsertFactor(_, _)
InsertFactor(sorted, factor) ==
    IF sorted = << >> THEN << factor >>
    ELSE IF Head(sorted).contribution >= factor.contribution
    THEN << Head(sorted) >> \o InsertFactor(Tail(sorted), factor)
    ELSE << factor >> \o sorted

RECURSIVE SortFactors(_, _)
SortFactors(factors, sorted) ==
    IF factors = << >> THEN sorted
    ELSE SortFactors(Tail(factors), InsertFactor(sorted, Head(factors)))

\* factors[:n]
Prefix(s, n) == SubSeq(s, 1, Min(n, Len(s)))

_get_top_factors(cfg, features, planned_sport, planned_gym_split) ==
    LET hrv_result ==
            evaluate_lower_threshold(features.hrv_z,
                cfg.hrv.severe_threshold, cfg.hrv.moderate_threshold, cfg.hrv.mild_threshold,
                cfg.hrv.severe_points, cfg.hrv.moderate_points, cfg.hrv.mild_points)
        rhr_result ==
            evaluate_upper_threshold(features.rhr_delta,
                cfg.rhr.severe_threshold, cfg.rhr.moderate_threshold, cfg.rhr.mild_threshold,
                cfg.rhr.severe_points, cfg.rhr.moderate_points, cfg.rhr.mild_points)
        sleep_result ==
            evaluate_lower_threshold(features.sleep_delta,
                cfg.sleep.severe_threshold, cfg.sleep.moderate_threshold,
                cfg.sleep.mild_threshold,
                cfg.sleep.severe_points, cfg.sleep.moderate_points, cfg.sleep.mild_points)
        acwr_triggered ==
            features.acwr # Absent /\ Val(features.acwr) > cfg.acwr.warning_threshold
        acwr_contribution ==
            IF ~ acwr_triggered THEN 0
            ELSE IF Val(features.acwr) > cfg.acwr.critical_threshold
            THEN cfg.acwr.critical_points
            ELSE IF Val(features.acwr) > cfg.acwr.elevated_threshold
            THEN cfg.acwr.elevated_points
            ELSE cfg.acwr.warning_points
        target_soreness ==
            get_soreness_in_target_muscles(features.soreness_map, planned_sport,
                                           planned_gym_split)
        consecutive_result ==
            evaluate_upper_threshold(Some(features.consecutive_training_days),
                cfg.training_load.consecutive_severe_threshold,
                cfg.training_load.consecutive_moderate_threshold,
                cfg.training_load.consecutive_mild_threshold,
                cfg.training_load.consecutive_severe_points,
                cfg.training_load.consecutive_moderate_points,
                cfg.training_load.consecutive_mild_points)
        fatigue_result ==
            evaluate_upper_threshold(Some(features.fatigue),
                cfg.fatigue.severe_threshold, cfg.fatigue.moderate_threshold, 0,
                cfg.fatigue.severe_points, cfg.fatigue.moderate_points, 0)
        factors ==
            Append1(hrv_result.triggered,
                    Factor("HRV below baseline", hrv_result.contribution,
                           << "HRV standard deviations below your 28-day average",
                              features.hrv_z >>, features.hrv_z))
            \o Append1(rhr_result.triggered,
                    Factor("Elevated resting heart rate", rhr_result.contribution,
                           << "Resting heart rate bpm above your average",
                              features.rhr_delta >>, features.rhr_delta))
            \o Append1(sleep_result.triggered,
                    Factor("Sleep deficit", sleep_result.contribution,
                           << "minutes less sleep than usual", features.sleep_delta >>,
                           features.sleep_delta))
            \o Append1(acwr_triggered,
                    Factor("High acute workload", acwr_contribution,
                           << "ACWR - acute load higher than chronic", features.acwr >>,
                           features.acwr))
            \o Append1(features.pain_score > 0,
                    Factor("Pain", features.pain_score * cfg.pain.points_per_level,
                           << "Pain score of /10", features.pain_score >>,
                           Some(features.pain_score)))
            \o Append1(target_soreness >= 5,
                    Factor("Soreness in target muscles",
                           target_soreness * cfg.soreness.target_muscle_points_per_level,
                           << "Muscle soreness /10 in muscles used for this activity",
                              target_soreness >>, Some(target_soreness)))
            \o Append1(consecutive_result.triggered,
                    Factor("Consecutive training days", consecutive_result.contribution,
                           << "days of training in a row",
                              features.consecutive_training_days >>,
                           Some(features.consecutive_training_days)))
            \o Append1(fatigue_result.triggered,
                    Factor("Subjective fatigue", fatigue_result.contribution,
                           << "Fatigue level of /10", features.fatigue >>,
                           Some(features.fatigue)))
    IN  Prefix(SortFactors(factors, << >>), 5)

\* [f(x) for x in s]
RECURSIVE MapSeq(_, _)
MapSeq(f(_), s) == IF s = << >> THEN << >> ELSE << f(Head(s)) >> \o MapSeq(f, Tail(s))

_generate_explanation(risk_level, safety_eval, top_factors) ==
    LET base == IF risk_level = "green"
                THEN "Your body shows good recovery signs."
                ELSE IF risk_level = "yellow"
                THEN "Some stress indicators are elevated."
                ELSE "Multiple critical indicators suggest high stress."
        described == SelectSeq(safety_eval.triggered_rules, LAMBDA r : r.description # << >>)
        rule_texts == IF any_triggered(safety_eval)
                      THEN MapSeq(LAMBDA r : r.description, described)
                      ELSE << >>
        factor_names == MapSeq(LAMBDA f : f.name, Prefix(top_factors, 3))
    IN  [ base |-> base, rule_texts |-> rule_texts, main_factors |-> factor_names ]

_features_to_dict(features) ==
    [ hrv_z |-> features.hrv_z, rhr_delta |-> features.rhr_delta,
      sleep_delta |-> features.sleep_delta, hrv_rmssd |-> features.hrv_rmssd,
      resting_hr |-> features.resting_hr,
      sleep_duration_minutes |-> features.sleep_duration_minutes,
      acute_load_7d |-> features.acute_load_7d,
      chronic_load_28d |-> features.chronic_load_28d, acwr |-> features.acwr,
      consecutive_training_days |-> features.consecutive_training_days,
      pain_score |-> features.pain_score, max_soreness |-> features.max_soreness,
      readiness |-> features.readiness, fatigue |-> features.fatigue,
      swelling |-> features.swelling ]

\* ScoreBreakdown.to_dict
to_dict(breakdown) ==
    [ hrv |-> breakdown.hrv_contribution, rhr |-> breakdown.rhr_contribution,
      sleep |-> breakdown.sleep_contribution, acwr |-> breakdown.acwr_contribution,
      pain |-> breakdown.pain_contribution,
      pain_trend |-> breakdown.pain_trend_contribution,
      target_soreness |-> breakdown.target_soreness_contribution,
      general_soreness |-> breakdown.general_soreness_contribution,
      readiness |-> breakdown.readiness_contribution,
      fatigue |-> breakdown.fatigue_contribution,
      consecutive_days |-> breakdown.consecutive_days_contribution,
      missing_data |-> breakdown.missing_data_penalty,
      base_score |-> breakdown.base_score,
      intensity_multiplier |-> breakdown.intensity_multiplier,
      final_score |-> breakdown.final_score ]

\* RiskScorer.__init__: "self.config = config or get_scoring_config()"
RiskScorer(config, global) ==
    [ config |-> IF config = Absent THEN get_scoring_config(global) ELSE Val(config),
      _last_breakdown |-> Absent ]

\* "X(value) if value else None": None and the empty string give None, a
\* member gives itself and any other value raises ValueError
ParseOptional(value, members) ==
    IF value = NONE \/ value = "" THEN [ raised |-> FALSE, value |-> NONE ]
    ELSE IF value \in members THEN [ raised |-> FALSE, value |-> value ]
    ELSE [ raised |-> TRUE, value |-> NONE ]

\* the three conversions at the head of evaluate_session
ParsePlannedSession(planned_session) ==
    LET intensity == ParseOptional(planned_session.planned_intensity, IntensityZone)
        split == ParseOptional(planned_session.gym_split, GymSplit)
    IN  [ raised |-> \/ planned_session.sport_type \notin SportType
                     \/ intensity.raised
                     \/ split.raised,
          planned_sport |-> planned_session.sport_type,
          planned_intensity |-> intensity.value,
          planned_gym_split |-> split.value ]

\* the entry of "triggered_safety_rules" made from one rule result
FormatRule(r) ==
    [ rule_id |-> r.rule_id, rule_name |-> r.rule_name, description |-> r.description,
      blocked_sports |-> r.blocked_sports,
      max_allowed_intensity |-> r.max_allowed_intensity,
      blocked_muscle_regions |-> r.blocked_muscle_regions ]

\* "self._last_breakdown = breakdown" losing the injected configuration
StoreBreakdownResettingConfig(self, breakdown) ==
    [ self EXCEPT !._last_breakdown = Some(breakdown), !.config = ScoringConfig ]

\* "self._last_breakdown = breakdown"
StoreBreakdown(self, breakdown) == [ self EXCEPT !._last_breakdown = Some(breakdown) ]

\* the dictionary evaluate_session returns
Verdict(risk, top_factors, safety_eval, recs, features, breakdown) ==
    [ risk_score |-> risk.risk_score,
      risk_level |-> risk.risk_level,
      top_factors |->
          MapSeq(LAMBDA f : [ name |-> f.name, contribution |-> f.contribution,
                              description |-> f.description ], top_factors),
      explanation_text |-> _generate_explanation(risk.risk_level, safety_eval, top_factors),
      triggered_safety_rules |-> MapSeq(FormatRule, safety_eval.triggered_rules),
      recommendation_a |-> recs[1],
      recommendation_b |-> recs[2],
      model_version |-> "heuristic_v1",
      feature_snapshot |-> _features_to_dict(features),
      score_breakdown |-> to_dict(breakdown) ]

\* evaluate_session from the risk determination on
ExplainAndRecommend(self, features, parsed, planned_duration, safety_eval, breakdown, risk) ==
    Verdict(risk,
            _get_top_factors(self.config, features, parsed.planned_sport,
                             parsed.planned_gym_split),
            safety_eval,
            generate_recommendations(
                RecommendationEngine(risk.risk_level, safety_eval,
                                     Some(safety_eval.blocked_muscle_regions)),
                parsed.planned_sport, planned_duration, parsed.planned_intensity,
                parsed.planned_gym_split),
            features, breakdown)

\* evaluate_session from the heuristic score on
ScoreAndExplain(self, features, parsed, planned_duration, safety_eval, breakdown, global) ==
    [ exception |-> NONE,
      verdict |-> Some(ExplainAndRecommend(self, features, parsed, planned_duration,
                           safety_eval, breakdown,
                           _determine_risk(breakdown.final_score, safety_eval))),
      self |-> StoreBreakdown(self, breakdown),
      global |-> Some(get_scoring_config(global)) ]

\* evaluate_session after the features are built and the plan is parsed: the
\* safety rules run with no config argument
EvaluateParsed(self, features, parsed, planned_duration, global, high_impact) ==
    IF parsed.raised
    THEN [ exception |-> "ValueError", verdict |-> Absent, self |-> self,
           global |-> global ]
    ELSE ScoreAndExplain(self, features, parsed, planned_duration,
             evaluate_all_safety_rules(features.pain_score, features.swelling,
                 features.soreness_map, parsed.planned_sport, parsed.planned_gym_split,
                 parsed.planned_intensity, features.hrv_z, features.rhr_delta,
                 features.hard_session_today,
                 get_scoring_config(global).safety_rules, high_impact),
             _calculate_heuristic_score(self.config, features, parsed.planned_sport,
                 parsed.planned_intensity, parsed.planned_gym_split),
             global)

\* evaluate_session on the scorer self, with the process-wide configuration
\* global and the module list high_impact.  Gives the exception raised or
\* the verdict returned, the scorer and the process-wide configuration after
\* the call.
evaluate_session(self, db, planned_session, global, high_impact) ==
    EvaluateParsed(self, build_features(db), ParsePlannedSession(planned_session),
                   planned_session.planned_duration_minutes, global, high_impact)

\* ------------------------------------------------------------------------
\* Inputs
\* ------------------------------------------------------------------------
\* pain, soreness, readiness and fatigue are on a 0-10 scale
MaxLevel == 10

Levels == 0..MaxLevel

\* largest number of entries of a soreness map
MaxSoreMuscles == 2

\* largest count of consecutive training days
MaxConsecutiveDays == 6

\* largest absolute three-day pain trend
MaxPainTrend == 3

OptionalIntensity == IntensityZone \cup { NONE }

OptionalSplit == GymSplit \cup { NONE }

\* a configuration with other thresholds and weights than the defaults
CustomConfig ==
    [ ScoringConfig EXCEPT
        !.hrv = [ severe_threshold |-> -20, moderate_threshold |-> -15,
                  mild_threshold |-> -10,
                  severe_points |-> 30, moderate_points |-> 20, mild_points |-> 10 ],
        !.acwr.critical_threshold = 180,
        !.acwr.critical_points = 35,
        !.pain.points_per_level = 2,
        !.intensity_multiplier = [ neutral_base |-> 5, scaling_factor |-> 10 ],
        !.safety_rules =
            [ r0_pain_threshold |-> 8, r0_swelling_triggers |-> FALSE,
              r1_pain_min |-> 4, r1_pain_max |-> 7,
              r2_doms_threshold |-> 6,
              r3_hrv_z_threshold |-> -10, r3_rhr_delta_threshold |-> 30 ] ]

\* a configuration whose weights reward instead of penalise
RewardConfig ==
    [ ScoringConfig EXCEPT
        !.missing_data.points_per_missing = -3,
        !.acwr.detraining_points = -3,
        !.readiness.moderate_points = -8 ]

\* the config argument of a safety rule: None or a SafetyRulesConfig
SafetyConfigArgs == { Absent, Some(CustomConfig.safety_rules) }

\* the config argument of RiskScorer: None or a ScoringConfig
ScoringConfigArgs == { Absent, Some(CustomConfig), Some(RewardConfig) }

\* soreness maps with at most n entries, keys in muscles, values in levels
SorenessMaps(muscles, levels, n) ==
    UNION { [ keys -> levels ] : keys \in { k \in SUBSET muscles : Cardinality(k) <= n } }

SetMax(S) == IF S = {} THEN 0 ELSE CHOOSE x \in S : \A y \in S : y <= x

\* max(soreness_map.values()), 0 for the empty map
MaxOfMap(map) == SetMax({ map[k] : k \in DOMAIN map })

HrvZValues == { Absent } \cup { Some(v) : v \in { -20, -16, -15, -12, -10, -7, -5, 5 } }

RhrDeltaValues == { Absent } \cup { Some(v) : v \in { 0, 30, 40, 50, 51, 80, 81, 100 } }

SleepDeltaValues == { Absent } \cup { Some(v) : v \in { -120, -90, -75, -60, -45, -30, 0 } }

AcwrValues ==
    { Absent } \cup
    { Some(v) : v \in { 60, 79, 80, 100, 120, 121, 130, 131, 150, 151, 160, 180, 181 } }

\* a snapshot as build_features leaves it: the missing flags follow the
\* normalized signals and max_soreness follows the soreness map
Snapshot(hrv_z, rhr_delta, sleep_delta, acwr, days, hard, pain, trend, map, readiness, fatigue, swelling) ==
    [ hrv_z |-> hrv_z, rhr_delta |-> rhr_delta, sleep_delta |-> sleep_delta,
      acwr |-> acwr, consecutive_training_days |-> days,
      hard_session_today |-> hard,
      pain_score |-> pain, pain_trend_3d |-> trend, max_soreness |-> MaxOfMap(map),
      soreness_map |-> map, readiness |-> readiness, fatigue |-> fatigue,
      swelling |-> swelling,
      missing_hrv |-> (hrv_z = Absent), missing_sleep |-> (sleep_delta = Absent),
      missing_rhr |-> (rhr_delta = Absent) ]

SoreLegs == [ m \in { "quads", "calves" } |-> IF m = "quads" THEN 9 ELSE 7 ]

\* every signal at its worst
WorstFeatures ==
    Snapshot(Some(-20), Some(100), Some(-120), Some(160), MaxConsecutiveDays, TRUE,
             MaxLevel, MaxPainTrend, SoreLegs, 0, MaxLevel, FALSE)

WithMap(f, map) == [ f EXCEPT !.soreness_map = map, !.max_soreness = MaxOfMap(map) ]

\* one signal swept over its values on the background snapshot f
Sweeps(f) ==
    { [ f EXCEPT !.hrv_z = v, !.missing_hrv = (v = Absent) ] : v \in HrvZValues }
    \cup { [ f EXCEPT !.rhr_delta = v, !.missing_rhr = (v = Absent) ] : v \in RhrDeltaValues }
    \cup { [ f EXCEPT !.sleep_delta = v, !.missing_sleep = (v = Absent) ] :
             v \in SleepDeltaValues }
    \cup { [ f EXCEPT !.acwr = v ] : v \in AcwrValues }
    \cup { [ f EXCEPT !.pain_score = v ] : v \in Levels }
    \cup { [ f EXCEPT !.pain_trend_3d = v ] : v \in (-MaxPainTrend)..MaxPainTrend }
    \cup { [ f EXCEPT !.readiness = v ] : v \in Levels }
    \cup { [ f EXCEPT !.fatigue = v ] : v \in Levels }
    \cup { [ f EXCEPT !.consecutive_training_days = v ] : v \in 0..MaxConsecutiveDays }
    \cup { WithMap(f, map) : map \in SorenessMaps({ "quads", "chest" }, { 4, 10 }, MaxSoreMuscles) }

\* every signal either at rest or at its worst
CoarseFeatures ==
    { Snapshot(h, r, s, a, d, FALSE, p, t, map, rd, fa, FALSE) :
        h \in { Absent, Some(-20) }, r \in { Absent, Some(100) },
        s \in { Some(0), Some(-120) }, a \in { Some(60), Some(160) },
        d \in { 0, MaxConsecutiveDays }, p \in { 0, MaxLevel },
        t \in { 0, MaxPainTrend }, map \in { EmptyMap, SoreLegs },
        rd \in { 7, 5 }, fa \in { 3, MaxLevel } }

\* the planned sport, intensity and split
Plans ==
    { [ sport |-> sp, intensity |-> i, split |-> NONE ] :
        sp \in SportType, i \in OptionalIntensity }
    \cup { [ sport |-> "gym", intensity |-> i, split |-> g ] :
             i \in OptionalIntensity, g \in GymSplit }
    \cup { [ sport |-> "run", intensity |-> "tempo", split |-> "legs" ] }

CoarsePlans ==
    { [ sport |-> "walk", intensity |-> "Z1", split |-> NONE ],
      [ sport |-> "run", intensity |-> NONE, split |-> NONE ],
      [ sport |-> "hyrox", intensity |-> "max", split |-> NONE ],
      [ sport |-> "gym", intensity |-> "tempo", split |-> "legs" ] }

ScoreInputs ==
    ((Sweeps(UserFeatures) \cup Sweeps(WorstFeatures)) \X Plans)
    \cup (CoarseFeatures \X CoarsePlans)

\* inputs of the combined evaluation
PainScoresAll == { 0, 4, 5, 6, 7, MaxLevel }

SoreMusclesAll == { "quads", "shoulders", "core" }

RecoveryValuesAll == { << Absent, Absent >>, << Some(-20), Some(0) >>,
                       << Absent, Some(60) >>, << Some(-20), Some(60) >> }

\* inputs of the risk determination: evaluations with every override level
RiskEvaluationInputs ==
    { << p, sp, h >> : p \in { 0, 5, 8 }, sp \in { "run", "bike" }, h \in BOOLEAN }

\* ------------------------------------------------------------------------
\* Inputs of the feature builder, the recommender and the session evaluation
\* ------------------------------------------------------------------------
\* largest number of rows of the workouts table
MaxWorkouts == 2

\* largest number of rows of the symptoms table
MaxSymptoms == 2

\* longest planned session, in minutes
MaxDuration == 60

DailyMetrics(hrv_rmssd, hrv_baseline_mean, hrv_baseline_std, resting_hr, rhr_baseline_mean, sleep_duration_minutes, sleep_baseline_mean, acute_load_7d, chronic_load_28d, acwr) ==
    [ hrv_rmssd |-> hrv_rmssd, hrv_baseline_mean |-> hrv_baseline_mean,
      hrv_baseline_std |-> hrv_baseline_std, resting_hr |-> resting_hr,
      rhr_baseline_mean |-> rhr_baseline_mean,
      sleep_duration_minutes |-> sleep_duration_minutes,
      sleep_baseline_mean |-> sleep_baseline_mean,
      acute_load_7d |-> acute_load_7d, chronic_load_28d |-> chronic_load_28d,
      acwr |-> acwr ]

Symptom(day, pain_score, readiness, fatigue, swelling, soreness_map) ==
    [ day |-> day, pain_score |-> pain_score, readiness |-> readiness,
      fatigue |-> fatigue, swelling |-> swelling, soreness_map |-> soreness_map ]

Workout(day, intensity_zone, trimp) ==
    [ day |-> day, intensity_zone |-> intensity_zone, trimp |-> trimp ]

Database(metrics, symptoms, workouts) ==
    [ metrics |-> metrics, symptoms |-> symptoms, workouts |-> workouts ]

EmptyDatabase == Database(Absent, << >>, << >>)

MetricsRows ==
    { DailyMetrics(h, hm, hs, r, rm, sl, sm, Absent, Absent, a) :
        h \in { Absent, Some(30), Some(50) }, hm \in { Absent, Some(50) },
        hs \in { Absent, Some(0), Some(10) },
        r \in { Absent, Some(61) }, rm \in { Absent, Some(55) },
        sl \in { Absent, Some(350) }, sm \in { Absent, Some(450) },
        a \in { Absent, Some(160) } }
    \cup { DailyMetrics(Absent, Absent, Absent, Absent, Absent, Absent, Absent,
                        Some(900), Some(600), Absent),
           DailyMetrics(Absent, Absent, Absent, Absent, Absent, Absent, Absent,
                        Absent, Some(0), Absent) }

SoreQuads == [ m \in { "quads" } |-> 7 ]

SoreTorsoAndQuads == [ m \in { "chest", "back", "quads" } |-> 7 ]

SymptomRows ==
    { Symptom(day, pain, 7, 3, FALSE, map) :
        day \in { 0, 3, 4 }, pain \in { 0, 5, 7 },
        map \in { Absent, Some(EmptyMap), Some(SoreQuads) } }
    \cup { Symptom(0, 0, 7, 3, TRUE, Absent), Symptom(0, 0, 3, 8, FALSE, Absent) }

WorkoutRows ==
    { Workout(day, zone, trimp) :
        day \in { 0, 1, 2, 7, 8, 28, 29 }, zone \in { "Z2", "threshold" },
        trimp \in { Absent, Some(100) } }

\* the tables of at most n rows in the order of the query: older rows first
\* if ascending, newer rows first otherwise
Tables(rows, n, ascending) ==
    { t \in UNION { [ 1..k -> rows ] : k \in 0..n } :
        \A i \in 1..(Len(t) - 1) :
            IF ascending THEN t[i].day >= t[i + 1].day ELSE t[i].day <= t[i + 1].day }

\* one workout of TRIMP 100 on each of the ten days ending today, newest first
TenDailyWorkouts == [ i \in 1..10 |-> Workout(i - 1, NONE, Some(100)) ]

FeatureDatabases ==
    { Database(Some(m), << >>, << >>) : m \in MetricsRows }
    \cup { Database(Absent, t, << >>) : t \in Tables(SymptomRows, MaxSymptoms, TRUE) }
    \cup { Database(m, << >>, t) :
             m \in { Absent, Some(DailyMetrics(Absent, Absent, Absent, Absent, Absent,
                                               Absent, Absent, Some(900), Absent, Absent)) },
             t \in Tables(WorkoutRows, MaxWorkouts, FALSE) }
    \cup { Database(Absent, << >>, TenDailyWorkouts) }

\* the safety evaluations handed to a recommendation engine
BlockedSportsSets ==
    { {}, { "football", "run", "hyrox" }, SportType \ { "walk" }, { "swim" },
      { "bike" }, { "bike", "swim", "walk" }, { "bike", "swim", "walk", "gym" } }

BlockedMusclesArgs ==
    { Absent, Some({ "quads", "hamstrings" }), Some({ "chest" }),
      Some({ "chest", "back" }), Some({ "chest", "back", "quads" }) }

EvaluationBlocking(blocked_sports) ==
    [ triggered_rules |-> << >>, max_allowed_intensity |-> NONE,
      blocked_sports |-> blocked_sports, blocked_muscle_regions |-> {},
      override_risk_level |-> NONE ]

Durations == { 1, 30, 44, 45, MaxDuration }

\* the databases of the evaluated sessions
MetricsOfSession ==
    { Absent,
      Some(DailyMetrics(Some(30), Some(50), Some(10), Some(61), Some(55),
                        Some(350), Some(450), Absent, Absent, Some(160))),
      Some(DailyMetrics(Some(30), Some(50), Some(10), Absent, Absent,
                        Some(450), Some(450), Absent, Absent, Absent)),
      Some(DailyMetrics(Some(30), Some(50), Some(10), Some(62), Some(55),
                        Absent, Absent, Absent, Absent, Absent)) }

SymptomsOfSession ==
    { << >>,
      << Symptom(0, 7, 7, 3, FALSE, Absent) >>,
      << Symptom(3, 2, 7, 3, FALSE, Absent), Symptom(0, 5, 5, 8, TRUE, Some(SoreQuads)) >>,
      << Symptom(0, 5, 7, 3, FALSE, Absent) >>,
      << Symptom(0, 0, 7, 3, FALSE, Some(SoreTorsoAndQuads)) >> }

WorkoutsOfSession ==
    { << >>,
      << Workout(0, "threshold", Some(100)), Workout(1, "Z2", Some(100)),
         Workout(2, "Z2", Some(100)), Workout(3, "Z2", Some(100)),
         Workout(4, "Z2", Some(100)), Workout(20, "Z2", Some(500)) >> }

SessionDatabases ==
    { Database(m, t, w) :
        m \in MetricsOfSession, t \in SymptomsOfSession, w \in WorkoutsOfSession }

\* the planned sessions as stored: a value, null (NONE) or any other string
PlannedSessions ==
    { [ sport_type |-> sp, planned_intensity |-> i, gym_split |-> g,
        planned_duration_minutes |-> MaxDuration ] :
        sp \in { "run", "bike", "gym", "yoga" },
        i \in { NONE, "", "tempo", "Z2", "max", "sprint" },
        g \in { NONE, "", "legs", "full_body", "arms" } }

\* the configurations installed by set_scoring_config
InstalledConfigs == { ScoringConfig, CustomConfig }

\* ------------------------------------------------------------------------
\* State
\* ------------------------------------------------------------------------
VARIABLES
    fn,                  \* the function being applied, "idle" between calls
    args,                \* its arguments
    ret,                 \* its return value
    default_config,      \* scoring_config._default_config
    HIGH_IMPACT_SPORTS,  \* safety_rules.HIGH_IMPACT_SPORTS
    scorer               \* the RiskScorer of the request being served, or Absent

vars == << fn, args, ret, default_config, HIGH_IMPACT_SPORTS, scorer >>

Init ==
    /\ fn = "idle"
    /\ args = << >>
    /\ ret = << >>
    /\ default_config = Absent
    /\ HIGH_IMPACT_SPORTS = << "football", "run", "hyrox" >>
    /\ scorer = Absent

\* "if config is None: config = get_scoring_config().safety_rules"
SafetyConfigOf(config) ==
    IF config = Absent THEN get_scoring_config(default_config).safety_rules
    ELSE Val(config)

\* the process-wide configuration after a call given the argument config
GlobalAfter(config) ==
    IF config = Absent THEN Some(get_scoring_config(default_config)) ELSE default_config

\* ------------------------------------------------------------------------
\* Operations
\* ------------------------------------------------------------------------
EvaluateR0 ==
    /\ fn = "idle"
    /\ \E pain_score \in Levels, swelling \in BOOLEAN, config \in SafetyConfigArgs :
         /\ fn' = "evaluate_r0_acute_pain"
         /\ args' = [ pain_score |-> pain_score, swelling |-> swelling, config |-> config ]
         /\ ret' = evaluate_r0_acute_pain(pain_score, swelling, SafetyConfigOf(config))
         /\ default_config' = GlobalAfter(config)
    /\ UNCHANGED << HIGH_IMPACT_SPORTS, scorer >>

EvaluateR1 ==
    /\ fn = "idle"
    /\ \E pain_score \in Levels, planned_sport \in SportType, config \in SafetyConfigArgs :
         /\ fn' = "evaluate_r1_moderate_pain_impact"
         /\ args' = [ pain_score |-> pain_score, planned_sport |-> planned_sport,
                      config |-> config ]
         /\ ret' = evaluate_r1_moderate_pain_impact(pain_score, planned_sport,
                                                    SafetyConfigOf(config),
                                                    HIGH_IMPACT_SPORTS)
         /\ default_config' = GlobalAfter(config)
    /\ UNCHANGED << HIGH_IMPACT_SPORTS, scorer >>

EvaluateR2 ==
    /\ fn = "idle"
    /\ \E soreness_map \in SorenessMaps(MuscleRegion, { 6, 7 }, MaxSoreMuscles),
          planned_sport \in SportType, planned_gym_split \in OptionalSplit,
          config \in SafetyConfigArgs :
         /\ fn' = "evaluate_r2_doms"
         /\ args' = [ soreness_map |-> soreness_map, planned_sport |-> planned_sport,
                      planned_gym_split |-> planned_gym_split, config |-> config ]
         /\ ret' = evaluate_r2_doms(soreness_map, planned_sport, planned_gym_split,
                                    SafetyConfigOf(config))
         /\ default_config' = GlobalAfter(config)
    /\ UNCHANGED << HIGH_IMPACT_SPORTS, scorer >>

EvaluateR3 ==
    /\ fn = "idle"
    /\ \E hrv_z \in HrvZValues, rhr_delta \in RhrDeltaValues, config \in SafetyConfigArgs :
         /\ fn' = "evaluate_r3_recovery_markers"
         /\ args' = [ hrv_z |-> hrv_z, rhr_delta |-> rhr_delta, config |-> config ]
         /\ ret' = evaluate_r3_recovery_markers(hrv_z, rhr_delta, SafetyConfigOf(config))
         /\ default_config' = GlobalAfter(config)
    /\ UNCHANGED << HIGH_IMPACT_SPORTS, scorer >>

EvaluateR4 ==
    /\ fn = "idle"
    /\ \E hard_session_today \in BOOLEAN, planned_intensity \in OptionalIntensity :
         /\ fn' = "evaluate_r4_two_a_day"
         /\ args' = [ hard_session_today |-> hard_session_today,
                      planned_intensity |-> planned_intensity ]
         /\ ret' = evaluate_r4_two_a_day(hard_session_today, planned_intensity)
    /\ UNCHANGED << default_config, HIGH_IMPACT_SPORTS, scorer >>

EvaluateAllSafetyRules ==
    /\ fn = "idle"
    /\ \E pain_score \in PainScoresAll, swelling \in BOOLEAN,
          soreness_map \in SorenessMaps(SoreMusclesAll, { 7 }, MaxSoreMuscles),
          plan \in Plans, recovery \in RecoveryValuesAll,
          hard_session_today \in BOOLEAN, config \in SafetyConfigArgs :
         /\ fn' = "evaluate_all_safety_rules"
         /\ args' = [ pain_score |-> pain_score, swelling |-> swelling,
                      soreness_map |-> soreness_map, planned_sport |-> plan.sport,
                      planned_gym_split |-> plan.split,
                      planned_intensity |-> plan.intensity,
                      hrv_z |-> recovery[1], rhr_delta |-> recovery[2],
                      hard_session_today |-> hard_session_today, config |-> config ]
         /\ ret' = evaluate_all_safety_rules(pain_score, swelling, soreness_map,
                       plan.sport, plan.split, plan.intensity, recovery[1], recovery[2],
                       hard_session_today, SafetyConfigOf(config), HIGH_IMPACT_SPORTS)
         /\ default_config' = GlobalAfter(config)
    /\ UNCHANGED << HIGH_IMPACT_SPORTS, scorer >>

\* RiskScorer(db, user_id, config)._calculate_heuristic_score(...)
CalculateHeuristicScore ==
    /\ fn = "idle"
    /\ \E input \in ScoreInputs, config \in ScoringConfigArgs :
         LET self_config == IF config = Absent THEN get_scoring_config(default_config)
                            ELSE Val(config)
         IN  /\ fn' = "_calculate_heuristic_score"
             /\ args' = [ config |-> self_config, features |-> input[1],
                          planned_sport |-> input[2].sport,
                          planned_intensity |-> input[2].intensity,
                          planned_gym_split |-> input[2].split ]
             /\ ret' = _calculate_heuristic_score(self_config, input[1], input[2].sport,
                                                  input[2].intensity, input[2].split)
             /\ default_config' = GlobalAfter(config)
    /\ UNCHANGED << HIGH_IMPACT_SPORTS, scorer >>

DetermineRisk ==
    /\ fn = "idle"
    /\ \E heuristic_score \in 0..100, e \in RiskEvaluationInputs :
         LET safety_eval ==
                 evaluate_all_safety_rules(e[1], FALSE, EmptyMap, e[2], NONE, "threshold",
                     Absent, Absent, e[3], SafetyRulesConfig, HIGH_IMPACT_SPORTS)
         IN  /\ fn' = "_determine_risk"
             /\ args' = [ heuristic_score |-> heuristic_score, safety_eval |-> safety_eval ]
             /\ ret' = _determine_risk(heuristic_score, safety_eval)
    /\ UNCHANGED << default_config, HIGH_IMPACT_SPORTS, scorer >>

\* the call returns and its frame is dropped
Return ==
    /\ fn # "idle"
    /\ fn' = "idle"
    /\ args' = << >>
    /\ ret' = << >>
    /\ scorer' = Absent
    /\ UNCHANGED << default_config, HIGH_IMPACT_SPORTS >>

Next ==
    \/ EvaluateR0
    \/ EvaluateR1
    \/ EvaluateR2
    \/ EvaluateR3
    \/ EvaluateR4
    \/ EvaluateAllSafetyRules
    \/ CalculateHeuristicScore
    \/ DetermineRisk
    \/ Return

Spec == Init /\ [][Next]_vars

\* ------------------------------------------------------------------------
\* Operations of a prediction request: the feature builder, the
\* recommendation engine and RiskScorer.evaluate_session
\* ------------------------------------------------------------------------
\* the plans handed to a recommendation engine
RecommendationPlans ==
    { [ sport |-> sp, intensity |-> i, split |-> NONE ] :
        sp \in SportType, i \in OptionalIntensity }
    \cup { [ sport |-> "gym", intensity |-> i, split |-> g ] :
             i \in { NONE, "tempo" }, g \in GymSplit }
    \cup { [ sport |-> "run", intensity |-> "tempo", split |-> "legs" ] }

BuildFeatures ==
    /\ fn = "idle"
    /\ \E db \in FeatureDatabases \cup SessionDatabases :
         /\ fn' = "build_features"
         /\ args' = [ db |-> db ]
         /\ ret' = build_features(db)
    /\ UNCHANGED << default_config, HIGH_IMPACT_SPORTS, scorer >>

\* RecommendationEngine(risk_level, safety_eval, blocked_muscle_regions)
\*     .generate_recommendations(...)
GenerateRecommendations ==
    /\ fn = "idle"
    /\ \E risk_level \in RiskLevel, blocked_sports \in BlockedSportsSets,
          blocked_muscle_regions \in BlockedMusclesArgs,
          plan \in RecommendationPlans, planned_duration \in Durations :
         LET self == RecommendationEngine(risk_level, EvaluationBlocking(blocked_sports),
                                          blocked_muscle_regions)
         IN  /\ fn' = "generate_recommendations"
             /\ args' = [ self |-> self, planned_sport |-> plan.sport,
                          planned_duration |-> planned_duration,
                          planned_intensity |-> plan.intensity,
                          planned_gym_split |-> plan.split ]
             /\ ret' = generate_recommendations(self, plan.sport, planned_duration,
                                                plan.intensity, plan.split)
    /\ UNCHANGED << default_config, HIGH_IMPACT_SPORTS, scorer >>

\* scorer = RiskScorer(db, user_id, config)
NewRiskScorer ==
    /\ fn = "idle"
    /\ \E config \in ScoringConfigArgs :
         /\ fn' = "RiskScorer"
         /\ args' = [ config |-> config ]
         /\ scorer' = Some(RiskScorer(config, default_config))
         /\ default_config' = GlobalAfter(config)
    /\ ret' = << >>
    /\ UNCHANGED HIGH_IMPACT_SPORTS

\* the scorer, the process-wide configuration and the module list a call found
StateBefore(self) ==
    [ scorer |-> self, default_config |-> default_config,
      HIGH_IMPACT_SPORTS |-> HIGH_IMPACT_SPORTS ]

\* the call result is returned and the state it left is installed
Evaluated(result, frame) ==
    /\ fn' = "evaluate_session"
    /\ args' = frame
    /\ ret' = [ exception |-> result.exception, verdict |-> result.verdict ]
    /\ scorer' = Some(result.self)
    /\ default_config' = result.global

\* the first scorer.evaluate_session(planned_session) of a request
EvaluateSession ==
    /\ fn = "RiskScorer"
    /\ \E db \in SessionDatabases, planned_session \in PlannedSessions :
         Evaluated(evaluate_session(Val(scorer), db, planned_session, default_config,
                                    HIGH_IMPACT_SPORTS),
                   [ config |-> args.config, db |-> db,
                     planned_session |-> planned_session,
                     call |-> 1, fresh |-> TRUE,
                     before |-> StateBefore(Val(scorer)), first |-> Absent ])
    /\ UNCHANGED HIGH_IMPACT_SPORTS

\* the planned sessions of a second evaluation: the same session, or the
\* session with a value outside its enumeration
SessionsAgain(planned_session) ==
    { planned_session,
      [ planned_session EXCEPT !.sport_type = "yoga" ],
      [ planned_session EXCEPT !.planned_intensity = "" ] }

\* the scorer of the second evaluation and the process-wide configuration it finds
ScorerAgain(fresh) ==
    IF fresh THEN RiskScorer(args.config, default_config) ELSE Val(scorer)

GlobalAgain(fresh) == IF fresh THEN GlobalAfter(args.config) ELSE default_config

\* a second evaluate_session right after the first, on the same scorer or on
\* a fresh RiskScorer(db, user_id, config)
EvaluateSessionAgain ==
    /\ fn = "evaluate_session"
    /\ args.call = 1
    /\ \E fresh \in BOOLEAN, planned_session \in SessionsAgain(args.planned_session) :
         Evaluated(evaluate_session(ScorerAgain(fresh), args.db, planned_session,
                                    GlobalAgain(fresh), HIGH_IMPACT_SPORTS),
                   [ args EXCEPT
                       !.planned_session = planned_session,
                       !.call = 2, !.fresh = fresh,
                       !.before = [ StateBefore(ScorerAgain(fresh)) EXCEPT
                                      !.default_config = GlobalAgain(fresh) ],
                       !.first = Some([ planned_session |-> args.planned_session,
                                        exception |-> ret.exception,
                                        verdict |-> ret.verdict,
                                        scorer |-> Val(scorer) ]) ])
    /\ UNCHANGED HIGH_IMPACT_SPORTS

SetScoringConfig ==
    /\ fn = "idle"
    /\ \E config \in InstalledConfigs :
         /\ fn' = "set_scoring_config"
         /\ args' = [ config |-> config ]
         /\ default_config' = Some(config)
    /\ ret' = << >>
    /\ UNCHANGED << HIGH_IMPACT_SPORTS, scorer >>

SessionNext ==
    \/ BuildFeatures
    \/ GenerateRecommendations
    \/ NewRiskScorer
    \/ EvaluateSession
    \/ EvaluateSessionAgain
    \/ SetScoringConfig
    \/ Return

SessionSpec == Init /\ [][SessionNext]_vars

\* ------------------------------------------------------------------------
\* Properties
\* ------------------------------------------------------------------------
\* the SafetyRulesConfig a rule call ran with
SafetyConfigInEffect ==
    IF args.config = Absent THEN Val(default_config).safety_rules ELSE Val(args.config)

NoDuplicates(s) == Cardinality(SeqToSet(s)) = Len(s)

\* C1: with the default configuration R0 triggers exactly when pain_score >= 7
\* or swelling is true; when it triggers the override is RED, the cap is Z1 and
\* the blocked sports are all sport types except walk.
C1_R0AcuteRedFlags ==
    (fn = "evaluate_r0_acute_pain" /\ SafetyConfigInEffect = SafetyRulesConfig) =>
        /\ ret.triggered <=> (args.pain_score >= 7 \/ args.swelling)
        /\ ret.triggered =>
             /\ ret.override_risk_level = "red"
             /\ ret.max_allowed_intensity = "Z1"
             /\ SeqToSet(ret.blocked_sports) = SportType \ { "walk" }
             /\ NoDuplicates(ret.blocked_sports)

C1_Witness ==
    /\ fn = "evaluate_r0_acute_pain"
    /\ SafetyConfigInEffect = SafetyRulesConfig
    /\ args.pain_score = 7
    /\ ~args.swelling
    /\ ret.triggered
    /\ Len(ret.blocked_sports) = 8

\* C2: _determine_risk returns max(heuristic, yellow_max + 1) under a RED
\* override, max(heuristic, green_max + 1) under a YELLOW override and the
\* heuristic score without an override; the score is never lowered and the
\* level is never less severe than the override level.
C2_OverrideOnlyRaises ==
    fn = "_determine_risk" =>
        LET h == args.heuristic_score
            o == args.safety_eval.override_risk_level
            severity == [ green |-> 1, yellow |-> 2, red |-> 3 ]
        IN  /\ o = "red" =>
                 ret.risk_score = IF h >= risk_threshold_yellow_max + 1 THEN h
                                  ELSE risk_threshold_yellow_max + 1
            /\ o = "yellow" =>
                 ret.risk_score = IF h >= risk_threshold_green_max + 1 THEN h
                                  ELSE risk_threshold_green_max + 1
            /\ o = NONE => ret.risk_score = h
            /\ ret.risk_score >= h
            /\ o # NONE => severity[ret.risk_level] >= severity[o]

C2_Witness ==
    /\ fn = "_determine_risk"
    /\ args.heuristic_score = 90
    /\ args.safety_eval.override_risk_level = "yellow"
    /\ ret.risk_score = 90
    /\ ret.risk_level = "red"

\* C3: with the default configuration R1 triggers exactly when 5 <= pain_score
\* <= 6; when it triggers it blocks exactly football, run and hyrox whatever
\* the planned sport, caps at Z2, and overrides to YELLOW exactly when the
\* planned sport is one of those three.
C3_R1ModeratePain ==
    (fn = "evaluate_r1_moderate_pain_impact" /\ SafetyConfigInEffect = SafetyRulesConfig) =>
        /\ ret.triggered <=> (5 <= args.pain_score /\ args.pain_score <= 6)
        /\ ret.triggered =>
             /\ SeqToSet(ret.blocked_sports) = { "football", "run", "hyrox" }
             /\ NoDuplicates(ret.blocked_sports)
             /\ ret.max_allowed_intensity = "Z2"
             /\ ret.override_risk_level =
                    IF args.planned_sport \in { "football", "run", "hyrox" }
                    THEN "yellow" ELSE NONE

C3_Witness ==
    /\ fn = "evaluate_r1_moderate_pain_impact"
    /\ SafetyConfigInEffect = SafetyRulesConfig
    /\ args.planned_sport = "bike"
    /\ ret.triggered
    /\ ret.override_risk_level = NONE
    /\ Len(ret.blocked_sports) = 3

\* the muscles R2 must look at and those of them that are sore
C4_Targets ==
    IF args.planned_sport = "gym" /\ args.planned_gym_split \in GymSplit
    THEN SeqToSet(GYM_SPLIT_MUSCLE_MAP[args.planned_gym_split])
    ELSE SeqToSet(SPORT_MUSCLE_MAP[args.planned_sport])

C4_SoreTargets ==
    { m \in C4_Targets \cap DOMAIN args.soreness_map :
        args.soreness_map[m] >= SafetyConfigInEffect.r2_doms_threshold }

\* C4: R2 takes the target muscles from the split mapping for gym with a split
\* and from the sport mapping otherwise; it triggers exactly when a target
\* muscle has soreness >= the threshold; it then blocks exactly those muscles,
\* overrides to YELLOW and sets no blocked sport and no cap.
C4_R2Doms ==
    fn = "evaluate_r2_doms" =>
        /\ ret.triggered <=> (C4_SoreTargets # {})
        /\ SeqToSet(ret.blocked_muscle_regions) = C4_SoreTargets
        /\ NoDuplicates(ret.blocked_muscle_regions)
        /\ ret.blocked_sports = << >>
        /\ ret.max_allowed_intensity = NONE
        /\ ret.override_risk_level = IF ret.triggered THEN "yellow" ELSE NONE

C4_Witness ==
    /\ fn = "evaluate_r2_doms"
    /\ args.planned_sport = "gym"
    /\ args.planned_gym_split = "push"
    /\ ret.triggered
    /\ ret.blocked_muscle_regions = << "chest" >>
    /\ "quads" \in DOMAIN args.soreness_map
    /\ args.soreness_map["quads"] >= SafetyConfigInEffect.r2_doms_threshold

\* C5: with the default configuration HRV is poor iff hrv_z is present and
\* < -1.5 and RHR elevated iff rhr_delta is present and > 5.0; both: cap Z2
\* and override YELLOW; exactly one: cap tempo and no override; none: not
\* triggered.
C5_R3RecoveryMarkers ==
    (fn = "evaluate_r3_recovery_markers" /\ SafetyConfigInEffect = SafetyRulesConfig) =>
        LET poor == args.hrv_z # Absent /\ Val(args.hrv_z) < -15
            elevated == args.rhr_delta # Absent /\ Val(args.rhr_delta) > 50
        IN  /\ (poor /\ elevated) =>
                 /\ ret.triggered
                 /\ ret.max_allowed_intensity = "Z2"
                 /\ ret.override_risk_level = "yellow"
            /\ (poor # elevated) =>
                 /\ ret.triggered
                 /\ ret.max_allowed_intensity = "tempo"
                 /\ ret.override_risk_level = NONE
            /\ (~poor /\ ~elevated) =>
                 /\ ~ret.triggered
                 /\ ret.max_allowed_intensity = NONE
                 /\ ret.override_risk_level = NONE

C5_Witness ==
    /\ fn = "evaluate_r3_recovery_markers"
    /\ SafetyConfigInEffect = SafetyRulesConfig
    /\ args.hrv_z = Some(-15)
    /\ args.rhr_delta = Some(51)
    /\ ret.triggered
    /\ ret.max_allowed_intensity = "tempo"

\* C6: R4 triggers exactly when a hard session was done today and the planned
\* intensity is threshold, VO2 or max; it then caps at Z2 and overrides to
\* YELLOW.
C6_R4TwoADay ==
    fn = "evaluate_r4_two_a_day" =>
        /\ ret.triggered <=>
             (args.hard_session_today
              /\ args.planned_intensity \in { "threshold", "VO2", "max" })
        /\ ret.triggered =>
             /\ ret.max_allowed_intensity = "Z2"
             /\ ret.override_risk_level = "yellow"

C6_Witness ==
    /\ fn = "evaluate_r4_two_a_day"
    /\ args.hard_session_today
    /\ args.planned_intensity = "VO2"
    /\ ret.triggered
    /\ ret.max_allowed_intensity = "Z2"

\* the five rules evaluated one by one on the arguments of the combined call
C7_Individually ==
    << evaluate_r0_acute_pain(args.pain_score, args.swelling, SafetyConfigInEffect),
       evaluate_r1_moderate_pain_impact(args.pain_score, args.planned_sport,
                                        SafetyConfigInEffect, HIGH_IMPACT_SPORTS),
       evaluate_r2_doms(args.soreness_map, args.planned_sport, args.planned_gym_split,
                        SafetyConfigInEffect),
       evaluate_r3_recovery_markers(args.hrv_z, args.rhr_delta, SafetyConfigInEffect),
       evaluate_r4_two_a_day(args.hard_session_today, args.planned_intensity) >>

C7_Triggered == { i \in 1..5 : C7_Individually[i].triggered }

C7_IntensityRank ==
    [ Z1 |-> 1, Z2 |-> 2, tempo |-> 3, threshold |-> 4, VO2 |-> 5, max |-> 6 ]

C7_SeverityRank == [ green |-> 1, yellow |-> 2, red |-> 3 ]

\* the least element of S under rank, NONE for the empty set
C7_Least(S, rank) ==
    IF S = {} THEN NONE ELSE CHOOSE x \in S : \A y \in S : rank[x] <= rank[y]

C7_Greatest(S, rank) ==
    IF S = {} THEN NONE ELSE CHOOSE x \in S : \A y \in S : rank[x] >= rank[y]

\* the triggered rules of the result in every order
C7_Orders ==
    LET n == Len(ret.triggered_rules)
    IN  { [ i \in 1..n |-> ret.triggered_rules[p[i]] ] : p \in Permutations(1..n) }

\* C7: evaluate_all_safety_rules returns the reduction of exactly the rules
\* that trigger individually: the unions of their blocked sports and muscles,
\* the lowest of their caps, the most severe of their overrides (absent when
\* none sets one), whatever the order in which the triggered rules are folded;
\* with no rule triggered everything is empty or absent.
C7_CombinedReduction ==
    fn = "evaluate_all_safety_rules" =>
        LET r == C7_Individually
            T == C7_Triggered
            caps == { r[i].max_allowed_intensity : i \in T } \ { NONE }
            overrides == { r[i].override_risk_level : i \in T } \ { NONE }
        IN  /\ ret.triggered_rules = SelectSeq(r, LAMBDA x : x.triggered)
            /\ ret.blocked_sports = UNION { SeqToSet(r[i].blocked_sports) : i \in T }
            /\ ret.blocked_muscle_regions =
                   UNION { SeqToSet(r[i].blocked_muscle_regions) : i \in T }
            /\ ret.max_allowed_intensity = C7_Least(caps, C7_IntensityRank)
            /\ ret.override_risk_level = C7_Greatest(overrides, C7_SeverityRank)
            /\ any_triggered(ret) <=> (T # {})
            /\ T = {} =>
                 /\ ret.triggered_rules = << >>
                 /\ ret.blocked_sports = {}
                 /\ ret.blocked_muscle_regions = {}
                 /\ ret.max_allowed_intensity = NONE
                 /\ ret.override_risk_level = NONE
            /\ \A order \in C7_Orders :
                 LET e == SafetyEvaluation(order)
                 IN  /\ e.blocked_sports = ret.blocked_sports
                     /\ e.blocked_muscle_regions = ret.blocked_muscle_regions
                     /\ e.max_allowed_intensity = ret.max_allowed_intensity
                     /\ e.override_risk_level = ret.override_risk_level

C7_Witness ==
    /\ fn = "evaluate_all_safety_rules"
    /\ Len(ret.triggered_rules) = 4
    /\ ret.triggered_rules[1].rule_id = "R1"
    /\ ret.triggered_rules[3].max_allowed_intensity = "tempo"
    /\ ret.max_allowed_intensity = "Z2"
    /\ ret.override_risk_level = "yellow"
    /\ Cardinality(ret.blocked_muscle_regions) = 2

\* the score before clamping, in 1/200 points, recomputed from the breakdown
C8_Unclamped ==
    ret.base_score * ret.intensity_multiplier + 200 * ret.missing_data_penalty

\* C8: final_score is an integer in [0, 100], a sum above 100 clamps to 100
\* and a negative sum to 0; with the cutoffs 35/60 the score after any safety
\* override is in [0, 100] too.
C8_ScoreWithinRange ==
    /\ fn = "_calculate_heuristic_score" =>
         /\ ret.final_score \in 0..100
         /\ C8_Unclamped > 200 * 100 => ret.final_score = 100
         /\ C8_Unclamped < 0 => ret.final_score = 0
         /\ \A o \in RiskLevel \cup { NONE } :
              _determine_risk(ret.final_score, [ override_risk_level |-> o ]).risk_score
                  \in 0..100
    /\ fn = "_determine_risk" => ret.risk_score \in 0..100

C8_Witness ==
    /\ fn = "_calculate_heuristic_score"
    /\ C8_Unclamped > 200 * 211
    /\ ret.final_score = 100

C8_WitnessNegative ==
    /\ fn = "_calculate_heuristic_score"
    /\ C8_Unclamped < -200
    /\ ret.final_score = 0

\* C9: the level is GREEN for a score <= green_max, YELLOW for a score in
\* green_max+1..yellow_max and RED above; with the cutoffs 35 and 60, 0..35 is
\* GREEN, 36..60 YELLOW and 61..100 RED.
C9_LevelOfScore ==
    fn = "_determine_risk" =>
        /\ ret.risk_level = "green" <=> ret.risk_score <= risk_threshold_green_max
        /\ ret.risk_level = "yellow" <=>
             (risk_threshold_green_max < ret.risk_score
              /\ ret.risk_score <= risk_threshold_yellow_max)
        /\ ret.risk_level = "red" <=> ret.risk_score > risk_threshold_yellow_max
        /\ ret.risk_score \in 0..35 => ret.risk_level = "green"
        /\ ret.risk_score \in 36..60 => ret.risk_level = "yellow"
        /\ ret.risk_score \in 61..100 => ret.risk_level = "red"

C9_Witness ==
    /\ fn = "_determine_risk"
    /\ args.safety_eval.override_risk_level = NONE
    /\ ret.risk_score = 36
    /\ ret.risk_level = "yellow"

\* C10: with the default thresholds the ACWR contribution is 25 above 1.5,
\* else 15 above 1.3, else 8 above 1.2, else 3 below 0.8, else 0; a value on a
\* threshold falls on the less severe side and an absent ACWR adds 0.
C10_AcwrStepFunction ==
    (fn = "_calculate_heuristic_score" /\ args.config.acwr = ACWRConfig) =>
        LET acwr == args.features.acwr
        IN  ret.acwr_contribution =
                IF acwr = Absent THEN 0
                ELSE IF Val(acwr) > 150 THEN 25
                ELSE IF Val(acwr) > 130 THEN 15
                ELSE IF Val(acwr) > 120 THEN 8
                ELSE IF Val(acwr) < 80 THEN 3
                ELSE 0

C10_Witness ==
    /\ fn = "_calculate_heuristic_score"
    /\ args.config.acwr = ACWRConfig
    /\ args.features.acwr = Some(150)
    /\ ret.acwr_contribution = 15


\* the configuration of the scorer that served the call
ScorerConfig == args.before.scorer.config

\* a planned run of moderate intensity: tempo, or no intensity given
ModerateRunPlanned ==
    /\ args.planned_session.sport_type = "run"
    /\ args.planned_session.planned_intensity \in { "tempo", NONE }

\* the session of a user with an empty history was evaluated for a moderate
\* run by a scorer whose missing-data weight is not negative
C11_EmptyHistoryEvaluated ==
    /\ fn = "evaluate_session"
    /\ ret.exception = NONE
    /\ args.db = EmptyDatabase
    /\ ModerateRunPlanned
    /\ ScorerConfig.missing_data.points_per_missing >= 0

\* everything C11 says of the empty history but the value of the final score
C11_ZeroContributions ==
    LET verdict == Val(ret.verdict)
        breakdown == verdict.score_breakdown
    IN  /\ build_features(args.db).missing_hrv
        /\ build_features(args.db).missing_sleep
        /\ build_features(args.db).missing_rhr
        /\ breakdown.acwr = 0
        /\ breakdown.consecutive_days = 0
        /\ breakdown.target_soreness = 0
        /\ breakdown.general_soreness = 0
        /\ breakdown.pain = 0
        /\ breakdown.pain_trend = 0
        /\ breakdown.base_score = 0
        /\ breakdown.missing_data = 3 * ScorerConfig.missing_data.points_per_missing
        /\ breakdown.intensity_multiplier =
               100 + (4 + 3 - ScorerConfig.intensity_multiplier.neutral_base)
                     * ScorerConfig.intensity_multiplier.scaling_factor
        /\ verdict.risk_score = breakdown.final_score
        /\ verdict.risk_level = "green"

PlannedOf == ParsePlannedSession(args.planned_session)

\* the sports and the muscle regions blocked by the triggered rules that the
\* returned verdict lists
VerdictBlockedSports ==
    UNION { SeqToSet(r.blocked_sports) :
              r \in SeqToSet(Val(ret.verdict).triggered_safety_rules) }

VerdictBlockedMuscles ==
    UNION { SeqToSet(r.blocked_muscle_regions) :
              r \in SeqToSet(Val(ret.verdict).triggered_safety_rules) }

\* a split whose muscles include a blocked one
TargetsBlocked(split, blocked_muscles) ==
    split \in GymSplit /\ SeqToSet(GYM_SPLIT_MUSCLE_MAP[split]) \cap blocked_muscles # {}

\* the tiers of the reduction chain, Z1 the lowest
C12_Tier == [ Z1 |-> 1, Z2 |-> 2, tempo |-> 3, threshold |-> 4, VO2 |-> 5, max |-> 6 ]

\* rec_a is the plan kept in sport and split, shortened to floor(0.8 x
\* duration), one tier down in intensity with Z1 as the floor, and flagged
C12_PlanReduced(rec_a, sport, duration, intensity, split) ==
    /\ rec_a.sport_type = sport
    /\ rec_a.gym_split = split
    /\ 5 * rec_a.duration_minutes <= 4 * duration
    /\ 4 * duration < 5 * (rec_a.duration_minutes + 1)
    /\ intensity # NONE =>
           /\ rec_a.intensity \in IntensityZone
           /\ C12_Tier[rec_a.intensity] = Max(C12_Tier[intensity] - 1, 1)
           /\ C12_Tier[rec_a.intensity] <= C12_Tier[intensity]
    /\ rec_a.is_original_plan_modified

\* a yellow engine was asked for a plan it has no reason to replace
C12_EngineCase ==
    /\ fn = "generate_recommendations"
    /\ args.self.risk_level = "yellow"
    /\ args.planned_sport \notin args.self.safety_eval.blocked_sports
    /\ ~ (args.planned_sport = "gym"
          /\ TargetsBlocked(args.planned_gym_split, args.self.blocked_muscles))

\* a session was evaluated YELLOW and no rule blocks its sport or its split
C12_SessionCase ==
    /\ fn = "evaluate_session"
    /\ ret.exception = NONE
    /\ Val(ret.verdict).risk_level = "yellow"
    /\ PlannedOf.planned_sport \notin VerdictBlockedSports
    /\ ~ (PlannedOf.planned_sport = "gym"
          /\ TargetsBlocked(PlannedOf.planned_gym_split, VerdictBlockedMuscles))

\* C12: in the YELLOW branch, when the planned sport is not blocked (and, for
\* gym, the planned split targets no blocked muscle), Recommendation A keeps
\* the planned sport and split, lasts floor(0.8 x planned duration), has the
\* planned intensity reduced by exactly one tier along max, VO2, threshold,
\* tempo, Z2, Z1 with Z1 staying Z1, so that no intensity is raised, and is
\* flagged as modified.
C12_YellowKeepsPlan ==
    /\ C12_EngineCase =>
           C12_PlanReduced(ret[1], args.planned_sport, args.planned_duration,
                           args.planned_intensity, args.planned_gym_split)
    /\ C12_SessionCase =>
           C12_PlanReduced(Val(ret.verdict).recommendation_a, PlannedOf.planned_sport,
                           args.planned_session.planned_duration_minutes,
                           PlannedOf.planned_intensity, PlannedOf.planned_gym_split)

\* a Z2 bike ride evaluated YELLOW because of R3 alone comes back as a
\* shortened bike ride at Z1
C12_Witness ==
    /\ C12_SessionCase
    /\ PlannedOf.planned_sport = "bike"
    /\ PlannedOf.planned_intensity = "Z2"
    /\ Len(Val(ret.verdict).triggered_safety_rules) = 1
    /\ Val(ret.verdict).triggered_safety_rules[1].rule_id = "R3"
    /\ Val(ret.verdict).recommendation_a.intensity = "Z1"
    /\ Val(ret.verdict).recommendation_a.duration_minutes = (4 * MaxDuration) \div 5
    /\ Val(ret.verdict).recommendation_a.is_original_plan_modified

\* an engine asked for a Z1 session of 44 minutes keeps Z1 and gives 35 minutes
C12_FloorReached ==
    /\ C12_EngineCase
    /\ args.planned_intensity = "Z1"
    /\ args.planned_duration = 44
    /\ ret[1].intensity = "Z1"
    /\ ret[1].duration_minutes = 35

\* ------------------------------------------------------------------------
\* evaluate_session as a function of its inputs (C13, C14, C16)
\* ------------------------------------------------------------------------
\* the second of two evaluations in a row was given the session of the first
C13_SameTupleTwice ==
    /\ fn = "evaluate_session"
    /\ args.call = 2
    /\ args.planned_session = Val(args.first).planned_session

\* the call left the configuration of its scorer, the process-wide
\* configuration that get_scoring_config returns and the module list of
\* high-impact sports as it found them
C13_StateKept ==
    /\ Val(scorer).config = args.before.scorer.config
    /\ get_scoring_config(default_config) = get_scoring_config(args.before.default_config)
    /\ HIGH_IMPACT_SPORTS = args.before.HIGH_IMPACT_SPORTS

C13_FreshReached ==
    /\ C13_SameTupleTwice
    /\ args.fresh
    /\ args.before.scorer._last_breakdown = Absent
    /\ ret.exception = NONE
    /\ ret.verdict = Val(args.first).verdict

\* the verdict of the served call had the process-wide configuration been global
VerdictUnder(global) ==
    evaluate_session(args.before.scorer, args.db, args.planned_session, global,
                     args.before.HIGH_IMPACT_SPORTS).verdict

\* a scorer constructed with an explicit ScoringConfig returned a verdict
C14_InjectedEvaluated ==
    /\ fn = "evaluate_session"
    /\ args.config # Absent
    /\ ret.exception = NONE

\* C14: a RiskScorer constructed with an explicit ScoringConfig evaluates every
\* stage of evaluate_session against that configuration, the thresholds of the
\* safety rules R0 - R3 included: its verdict is the one it gives when the
\* process-wide configuration is the injected one, whichever configuration
\* the process holds.
C14_InjectedConfigGoverns ==
    C14_InjectedEvaluated =>
        /\ ret.verdict = VerdictUnder(Some(ScorerConfig))
        /\ \A config \in InstalledConfigs : ret.verdict = VerdictUnder(Some(config))

\* a scorer holding a configuration whose R0 pain threshold is 8 evaluated a
\* session on a pain score of 7 while the process held the default threshold
\* of 7: R0 triggered and the verdict is RED, although under the injected
\* threshold R0 stays silent
C14_GlobalThresholdUsed ==
    /\ C14_InjectedEvaluated
    /\ ScorerConfig = CustomConfig
    /\ get_scoring_config(args.before.default_config) = ScoringConfig
    /\ build_features(args.db).pain_score = 7
    /\ Val(ret.verdict).triggered_safety_rules[1].rule_id = "R0"
    /\ Val(ret.verdict).risk_level = "red"
    /\ Val(VerdictUnder(Some(ScorerConfig))).triggered_safety_rules[1].rule_id = "R1"
    /\ Val(VerdictUnder(Some(ScorerConfig))).risk_level # "red"

\* ------------------------------------------------------------------------
\* app/services/scoring_config.py: loading a configuration from YAML
\*
\* A document is what yaml.safe_load makes of the file, or its failure:
\*   kind "error"      the file is not YAML (yaml.YAMLError)
\*   kind "null", "number"   an empty document, a number
\*   kind "str", "sequence"  a string or a list; names holds the section
\*                     names that "name in data" finds in it
\*   kind "mapping"    a dict; sections maps its keys to the section values
\* A section value is a mapping of field names to scalars or another value,
\* and a scalar is a number (in the unit of the model), a string or null;
\* it holds its number and its text apart, the one that is not meant being
\* 0 or "".
\* ------------------------------------------------------------------------
SectionNames == DOMAIN ScoringConfig

Scalar(kind, number, text) == [ kind |-> kind, number |-> number, text |-> text ]

\* the Python value of a scalar
PythonValue(scalar) ==
    IF scalar.kind = "number" THEN scalar.number
    ELSE IF scalar.kind = "null" THEN NONE
    ELSE scalar.text

SectionValue(kind, fields) == [ kind |-> kind, fields |-> fields ]

Document(kind, names, sections) == [ kind |-> kind, names |-> names, sections |-> sections ]

\* "X(**value)" for the dataclass X with the field defaults default: the
\* dataclass takes any value for a field it knows and nothing else
SectionOf(default, value) ==
    IF value.kind # "mapping" \/ ~ (DOMAIN value.fields \subseteq DOMAIN default)
    THEN [ raised |-> "TypeError", section |-> default ]
    ELSE [ raised |-> NONE,
           section |-> [ f \in DOMAIN default |->
                           IF f \in DOMAIN value.fields
                           THEN PythonValue(value.fields[f])
                           ELSE default[f] ] ]

\* the sections of a mapping that from_yaml looks at
PresentSections(document) == DOMAIN document.sections \cap SectionNames

\* ScoringConfig.from_yaml on a mapping
FromMapping(document) ==
    IF \E s \in PresentSections(document) :
           SectionOf(ScoringConfig[s], document.sections[s]).raised # NONE
    THEN [ raised |-> "TypeError", config |-> Absent ]
    ELSE [ raised |-> NONE,
           config |-> Some([ s \in SectionNames |->
                               IF s \in PresentSections(document)
                               THEN SectionOf(ScoringConfig[s], document.sections[s]).section
                               ELSE ScoringConfig[s] ]) ]

\* ScoringConfig.from_yaml: the exception raised or the configuration built
from_yaml(document) ==
    IF document.kind = "error" THEN [ raised |-> "YAMLError", config |-> Absent ]
    ELSE IF document.kind \in { "null", "number" }
    THEN [ raised |-> "TypeError", config |-> Absent ]
    ELSE IF document.kind \in { "str", "sequence" }
    THEN IF document.names \cap SectionNames # {}
         THEN [ raised |-> "TypeError", config |-> Absent ]
         ELSE [ raised |-> NONE, config |-> Some(ScoringConfig) ]
    ELSE FromMapping(document)

\* set_scoring_config after a from_yaml that returned
SetLoaded(loaded, global) ==
    [ raised |-> loaded.raised, config |-> loaded.config,
      global |-> IF loaded.raised = NONE THEN loaded.config ELSE global ]

\* load_scoring_config_from_yaml with the process-wide configuration global
load_scoring_config_from_yaml(document, global) == SetLoaded(from_yaml(document), global)

\* most fields a section of a document gives
MaxFields == 2

YamlScalars ==
    { Scalar("number", -20, ""), Scalar("number", 8, ""), Scalar("str", 0, "abc"),
      Scalar("null", 0, "") }

\* the mappings of at most MaxFields of the names to scalars
FieldMaps(names) ==
    UNION { [ keys -> YamlScalars ] :
              keys \in { k \in SUBSET names : Cardinality(k) <= MaxFields } }

\* section values: mappings with known and unknown field names, and values
\* that are no mapping
SectionValues(names) ==
    { SectionValue("mapping", fields) : fields \in FieldMaps(names) }
    \cup { SectionValue("null", EmptyMap), SectionValue("number", EmptyMap) }

YamlDocuments ==
    { Document("error", {}, EmptyMap), Document("null", {}, EmptyMap),
      Document("number", {}, EmptyMap),
      Document("str", {}, EmptyMap), Document("str", { "hrv" }, EmptyMap),
      Document("sequence", {}, EmptyMap), Document("sequence", { "hrv" }, EmptyMap),
      Document("mapping", {}, EmptyMap) }
    \cup { Document("mapping", { "hrv" }, [ s \in { "hrv" } |-> v ]) :
             v \in SectionValues({ "severe_threshold", "severe_points", "severe_treshold" }) }
    \cup { Document("mapping", { "safety_rules" }, [ s \in { "safety_rules" } |-> v ]) :
             v \in SectionValues({ "r0_pain_threshold", "r0_pain" }) }
    \cup { Document("mapping", { "hvr" }, [ s \in { "hvr" } |-> v ]) :
             v \in SectionValues({ "severe_threshold" }) }

LoadScoringConfigFromYaml ==
    /\ fn = "idle"
    /\ \E document \in YamlDocuments :
         /\ fn' = "load_scoring_config_from_yaml"
         /\ args' = [ document |-> document, before |-> default_config ]
         /\ ret' = [ raised |-> from_yaml(document).raised,
                     config |-> from_yaml(document).config ]
         /\ default_config' = load_scoring_config_from_yaml(document, default_config).global
    /\ UNCHANGED << HIGH_IMPACT_SPORTS, scorer >>

GetScoringConfig ==
    /\ fn = "idle"
    /\ fn' = "get_scoring_config"
    /\ args' = [ before |-> default_config ]
    /\ ret' = get_scoring_config(default_config)
    /\ default_config' = Some(get_scoring_config(default_config))
    /\ UNCHANGED << HIGH_IMPACT_SPORTS, scorer >>

ConfigNext ==
    \/ LoadScoringConfigFromYaml
    \/ GetScoringConfig
    \/ SetScoringConfig
    \/ Return

ConfigSpec == Init /\ [][ConfigNext]_vars

\* ------------------------------------------------------------------------
\* Malformed configuration documents (C15)
\* ------------------------------------------------------------------------
\* a section of the document names a field its dataclass does not have
UnknownFieldName(document) ==
    \E s \in PresentSections(document) :
        /\ document.sections[s].kind = "mapping"
        /\ ~ (DOMAIN document.sections[s].fields \subseteq DOMAIN ScoringConfig[s])

\* a section of the document gives something else than a number to a field
NonNumericValue(document) ==
    \E s \in PresentSections(document) :
        /\ document.sections[s].kind = "mapping"
        /\ \E f \in DOMAIN document.sections[s].fields \cap DOMAIN ScoringConfig[s] :
               document.sections[s].fields[f].kind # "number"

\* the three kinds of malformed document
Malformed(document) ==
    \/ document.kind \in { "null", "number", "str", "sequence" }
    \/ document.kind = "mapping"
       /\ (UnknownFieldName(document) \/ NonNumericValue(document))

C15_LoadAttempted == fn = "load_scoring_config_from_yaml"

\* C15: whenever load_scoring_config_from_yaml is given a malformed document
\* (a document that is not a mapping, a section with an unknown field name,
\* or a non-numeric value for a numeric field), the error is raised at load
\* time and the process-wide configuration afterwards is the one from before
\* the load attempt.
C15_MalformedRejected ==
    (C15_LoadAttempted /\ Malformed(args.document)) =>
        /\ ret.raised # NONE
        /\ default_config = args.before

\* a list that holds no section name was loaded over a custom configuration:
\* nothing was raised and the process is back on the defaults
C15_ListInstalledDefaults ==
    /\ C15_LoadAttempted
    /\ args.document = Document("sequence", {}, EmptyMap)
    /\ args.before # Absent
    /\ Val(args.before).pain = CustomConfig.pain
    /\ ret.raised = NONE
    /\ default_config = Some(ScoringConfig)
    /\ Val(default_config).pain # CustomConfig.pain

\* the document "hrv: {severe_threshold: abc}"
C15_TextDocument ==
    Document("mapping", { "hrv" },
             [ s \in { "hrv" } |->
                 SectionValue("mapping",
                     [ f \in { "severe_threshold" } |-> Scalar("str", 0, "abc") ]) ])

\* the text "abc" was loaded as the severe HRV threshold and is now held by
\* the process-wide configuration
C15_TextInstalled ==
    /\ C15_LoadAttempted
    /\ args.document = C15_TextDocument
    /\ NonNumericValue(args.document)
    /\ ret.raised = NONE
    /\ Val(default_config).hrv.severe_threshold = "abc"
    /\ Val(default_config).hrv.severe_points = HRVConfig.severe_points

\* an unknown field name is refused and the configuration stays
C15_UnknownFieldRefused ==
    /\ C15_LoadAttempted
    /\ UnknownFieldName(args.document)
    /\ ret.raised = "TypeError"
    /\ args.before # Absent

\* the sport, the intensity or the split of the session holds a value that
\* is not null and not a member of its enumeration
C16_OutsideEnumeration(planned_session) ==
    \/ planned_session.sport_type \notin SportType
    \/ planned_session.planned_intensity \notin IntensityZone \cup { NONE }
    \/ planned_session.gym_split \notin GymSplit \cup { NONE }

\* C16: for every planned session whose sport, intensity or split holds a
\* non-null value outside the known enumeration, the empty string included,
\* evaluate_session fails with a validation error: no verdict is returned
\* and the scorer's last_breakdown is as it was before the call.
C16_InvalidRejected ==
    (fn = "evaluate_session" /\ C16_OutsideEnumeration(args.planned_session)) =>
        /\ ret.exception = "ValueError"
        /\ ret.verdict = Absent
        /\ Val(scorer)._last_breakdown = args.before.scorer._last_breakdown

\* a run planned with the empty string as its intensity was evaluated as if
\* no intensity were given: a verdict came back and the breakdown cache of
\* the scorer was replaced
C16_EmptyStringAccepted ==
    /\ fn = "evaluate_session"
    /\ args.planned_session.sport_type = "run"
    /\ args.planned_session.planned_intensity = ""
    /\ args.planned_session.gym_split = NONE
    /\ ret.exception = NONE
    /\ ret.verdict = VerdictUnder(args.before.default_config)
    /\ ret.verdict =
           evaluate_session(args.before.scorer, args.db,
                            [ args.planned_session EXCEPT !.planned_intensity = NONE ],
                            args.before.default_config,
                            args.before.HIGH_IMPACT_SPORTS).verdict
    /\ Val(scorer)._last_breakdown # args.before.scorer._last_breakdown

\* a sport that is no member is refused and the breakdown of the evaluation
\* before stays in the cache
C16_UnknownRefused ==
    /\ fn = "evaluate_session"
    /\ args.planned_session.sport_type = "yoga"
    /\ ret.exception = "ValueError"
    /\ ret.verdict = Absent
    /\ args.call = 2
    /\ Val(scorer)._last_breakdown # Absent

\* the recommendation differs from the plan in sport, split, duration or intensity
DiffersFromPlan(rec, sport, duration, intensity, split) ==
    \/ rec.sport_type # sport
    \/ rec.gym_split # split
    \/ rec.duration_minutes # duration
    \/ rec.intensity # intensity

\* C17: for every recommendation returned by generate_recommendations in any
\* of the three branches, Recommendation A and Recommendation B alike,
\* is_original_plan_modified is true whenever the recommendation's sport,
\* split, duration or intensity differs from the planned one.
C17_FlagTracksDifference ==
    fn = "generate_recommendations" =>
        \A i \in { 1, 2 } :
            DiffersFromPlan(ret[i], args.planned_sport, args.planned_duration,
                            args.planned_intensity, args.planned_gym_split)
                => ret[i].is_original_plan_modified

\* a GREEN engine with nothing blocked answers a planned threshold run with
\* a bike ride as Recommendation B, and the bike ride is not flagged
C17_AlternativeNotFlagged ==
    /\ fn = "generate_recommendations"
    /\ args.self.risk_level = "green"
    /\ args.self.safety_eval.blocked_sports = {}
    /\ args.planned_sport = "run"
    /\ args.planned_intensity = "threshold"
    /\ args.planned_duration = MaxDuration
    /\ ret[1].sport_type = "run"
    /\ ret[2].sport_type = "bike"
    /\ ~ ret[2].is_original_plan_modified

\* the recovery walk of a RED engine replaces a planned run and is not flagged
C17_RecoveryNotFlagged ==
    /\ fn = "generate_recommendations"
    /\ args.self.risk_level = "red"
    /\ args.planned_sport = "run"
    /\ ret[1].sport_type = "walk"
    /\ ~ ret[1].is_original_plan_modified
    /\ ~ ret[2].is_original_plan_modified

\* the preference list of the safe gym split
C18_Preference == << "push", "pull", "upper", "legs" >>

\* split is the first of the preference list that targets no blocked muscle
C18_FirstSafe(split, blocked_muscles) ==
    \E i \in 1..Len(C18_Preference) :
        /\ split = C18_Preference[i]
        /\ ~ TargetsBlocked(C18_Preference[i], blocked_muscles)
        /\ \A j \in 1..(i - 1) : TargetsBlocked(C18_Preference[j], blocked_muscles)

\* a yellow engine was asked for a gym session whose split targets a blocked
\* muscle, gym itself not being blocked
C18_EngineCase ==
    /\ fn = "generate_recommendations"
    /\ args.self.risk_level = "yellow"
    /\ args.planned_sport = "gym"
    /\ "gym" \notin args.self.safety_eval.blocked_sports
    /\ TargetsBlocked(args.planned_gym_split, args.self.blocked_muscles)

\* a gym session was evaluated YELLOW and its split targets a muscle that a
\* triggered rule blocks
C18_SessionCase ==
    /\ fn = "evaluate_session"
    /\ ret.exception = NONE
    /\ Val(ret.verdict).risk_level = "yellow"
    /\ PlannedOf.planned_sport = "gym"
    /\ "gym" \notin VerdictBlockedSports
    /\ TargetsBlocked(PlannedOf.planned_gym_split, VerdictBlockedMuscles)

\* C18: in the YELLOW branch, for every set of blocked muscle regions, when
\* the planned sport is gym and the planned split targets a blocked muscle,
\* Recommendation A's split is the first split of the preference list (push,
\* pull, upper, legs) that targets no blocked muscle, so that the split of
\* Recommendation A never targets a blocked muscle region.
C18_SafeSplit ==
    /\ C18_EngineCase =>
           /\ C18_FirstSafe(ret[1].gym_split, args.self.blocked_muscles)
           /\ ~ TargetsBlocked(ret[1].gym_split, args.self.blocked_muscles)
    /\ C18_SessionCase =>
           /\ C18_FirstSafe(Val(ret.verdict).recommendation_a.gym_split,
                            VerdictBlockedMuscles)
           /\ ~ TargetsBlocked(Val(ret.verdict).recommendation_a.gym_split,
                               VerdictBlockedMuscles)

\* chest, back and quads are sore at the DOMS threshold and a full-body gym
\* session is planned: R2 blocks the three regions, the verdict is YELLOW and
\* Recommendation A is an upper-body session, which targets chest and back
C18_BlockedSplitRecommended ==
    /\ C18_SessionCase
    /\ PlannedOf.planned_gym_split = "full_body"
    /\ VerdictBlockedMuscles = { "chest", "back", "quads" }
    /\ Val(ret.verdict).recommendation_a.sport_type = "gym"
    /\ Val(ret.verdict).recommendation_a.gym_split = "upper"
    /\ TargetsBlocked("upper", VerdictBlockedMuscles)

\* with the quads and hamstrings blocked, planned legs become a push session
C18_PushRecommended ==
    /\ C18_EngineCase
    /\ args.self.blocked_muscles = { "quads", "hamstrings" }
    /\ args.planned_gym_split = "legs"
    /\ ret[1].gym_split = "push"

\* the fallback priority of the alternative sport
C19_Fallback == << "bike", "swim", "walk" >>

\* sport is the first of the fallback list that is not blocked
C19_FirstFree(sport, blocked_sports) ==
    \E i \in 1..Len(C19_Fallback) :
        /\ sport = C19_Fallback[i]
        /\ sport \notin blocked_sports
        /\ \A j \in 1..(i - 1) : C19_Fallback[j] \in blocked_sports

\* a green engine was asked for a sport that is not blocked
C19_EngineCase ==
    /\ fn = "generate_recommendations"
    /\ args.self.risk_level = "green"
    /\ args.planned_sport \notin args.self.safety_eval.blocked_sports

\* C19: in the GREEN branch with a planned sport that is not blocked,
\* Recommendation A is the plan unchanged (same sport, duration, intensity
\* and split, not flagged as modified) and Recommendation B has the planned
\* duration and intensity and a sport that differs from the planned sport
\* and is not in the blocked-sports set; when the alternative of the
\* substitution table is blocked, Recommendation B's sport is the first
\* non-blocked sport of (bike, swim, walk).
C19_GreenAlternative ==
    C19_EngineCase =>
        /\ ~ DiffersFromPlan(ret[1], args.planned_sport, args.planned_duration,
                             args.planned_intensity, args.planned_gym_split)
        /\ ~ ret[1].is_original_plan_modified
        /\ ret[2].duration_minutes = args.planned_duration
        /\ ret[2].intensity = args.planned_intensity
        /\ ret[2].sport_type # args.planned_sport
        /\ ret[2].sport_type \notin args.self.safety_eval.blocked_sports
        /\ Get(alternatives, args.planned_sport, "bike")
               \in args.self.safety_eval.blocked_sports
             => C19_FirstFree(ret[2].sport_type, args.self.safety_eval.blocked_sports)

\* a bike ride is planned and swimming is blocked: the alternative offered
\* is the planned bike ride itself
C19_PlannedSportOffered ==
    /\ C19_EngineCase
    /\ args.planned_sport = "bike"
    /\ args.self.safety_eval.blocked_sports = { "swim" }
    /\ ret[2].sport_type = "bike"

\* a gym session is planned and bike, swim and walk are blocked: the
\* alternative offered is the blocked bike ride
C19_BlockedSportOffered ==
    /\ C19_EngineCase
    /\ args.planned_sport = "gym"
    /\ args.self.safety_eval.blocked_sports = { "bike", "swim", "walk" }
    /\ ret[2].sport_type = "bike"

\* a run is planned and the bike is blocked: the alternative is a swim
C19_FallbackTaken ==
    /\ C19_EngineCase
    /\ args.planned_sport = "run"
    /\ args.self.safety_eval.blocked_sports = { "bike" }
    /\ ret[2].sport_type = "swim"
    /\ ret[2].duration_minutes = args.planned_duration

\* a red engine answered
C20_EngineCase ==
    /\ fn = "generate_recommendations"
    /\ args.self.risk_level = "red"

\* a session was evaluated RED
C20_SessionCase ==
    /\ fn = "evaluate_session"
    /\ ret.exception = NONE
    /\ Val(ret.verdict).risk_level = "red"

\* rec_a is a 30-minute walk at Z1 and rec_b a 20-minute swim at Z1
C20_Recovery(rec_a, rec_b) ==
    /\ rec_a.sport_type = "walk"
    /\ rec_a.duration_minutes = 30
    /\ rec_a.intensity = "Z1"
    /\ rec_a.gym_split = NONE
    /\ rec_b.sport_type = "swim"
    /\ rec_b.duration_minutes = 20
    /\ rec_b.intensity = "Z1"
    /\ rec_b.gym_split = NONE

\* C20: in the RED branch the recommendations do not depend on the planned
\* sport, duration, intensity or split: Recommendation A is always a
\* 30-minute walk at Z1 and Recommendation B is always a 20-minute swim at Z1.
C20_RedIsFixed ==
    /\ C20_EngineCase =>
           /\ C20_Recovery(ret[1], ret[2])
           /\ ret = _red_recommendations(MaxDuration)
    /\ C20_SessionCase =>
           /\ C20_Recovery(Val(ret.verdict).recommendation_a,
                           Val(ret.verdict).recommendation_b)
           /\ << Val(ret.verdict).recommendation_a, Val(ret.verdict).recommendation_b >>
                  = _red_recommendations(MaxDuration)

\* a red engine asked for one minute of gym answers with the 30-minute walk
\* and the 20-minute swim, both longer than the plan
C20_Witness ==
    /\ C20_EngineCase
    /\ args.planned_sport = "gym"
    /\ args.planned_duration = 1
    /\ args.planned_gym_split = "legs"
    /\ C20_Recovery(ret[1], ret[2])

\* a session with a pain score of 7 is evaluated RED by R0 and gets the same two
C20_SessionReached ==
    /\ C20_SessionCase
    /\ Val(ret.verdict).triggered_safety_rules[1].rule_id = "R0"
    /\ PlannedOf.planned_sport = "bike"
    /\ C20_Recovery(Val(ret.verdict).recommendation_a, Val(ret.verdict).recommendation_b)

\* ------------------------------------------------------------------------
\* The verdict against its safety evaluation (C21, C23)
\* ------------------------------------------------------------------------
\* a verdict was returned
VerdictReturned ==
    /\ fn = "evaluate_session"
    /\ ret.exception = NONE

\* C21: for every verdict produced by the pipeline (safety evaluation from
\* evaluate_all_safety_rules, level from _determine_risk, recommendations
\* from the RecommendationEngine on that level and evaluation), neither
\* Recommendation A nor Recommendation B proposes a sport that is in the
\* blocked-sports set of the safety evaluation.
C21_NoBlockedSportProposed ==
    VerdictReturned =>
        /\ Val(ret.verdict).recommendation_a.sport_type \notin VerdictBlockedSports
        /\ Val(ret.verdict).recommendation_b.sport_type \notin VerdictBlockedSports

\* a pain score of 7 triggers R0, which blocks every sport but walking; the
\* verdict is RED and its Recommendation B is the blocked swim
C21_BlockedSwimProposed ==
    /\ VerdictReturned
    /\ build_features(args.db).pain_score = 7
    /\ Val(ret.verdict).triggered_safety_rules[1].rule_id = "R0"
    /\ Val(ret.verdict).risk_level = "red"
    /\ VerdictBlockedSports = SportType \ { "walk" }
    /\ Val(ret.verdict).recommendation_a.sport_type = "walk"
    /\ Val(ret.verdict).recommendation_b.sport_type = "swim"

\* ------------------------------------------------------------------------
\* Consecutive training days (C24)
\* ------------------------------------------------------------------------
\* the points of a count compared with >= against the three thresholds
C24_PointsAtLeast(days, training_load) ==
    IF days >= training_load.consecutive_severe_threshold
    THEN training_load.consecutive_severe_points
    ELSE IF days >= training_load.consecutive_moderate_threshold
    THEN training_load.consecutive_moderate_points
    ELSE IF days >= training_load.consecutive_mild_threshold
    THEN training_load.consecutive_mild_points
    ELSE 0

\* C24: the consecutive-training-days contribution compares with >= against
\* its three thresholds: with the defaults (5, 4, 3) a count of 5 or more
\* adds the severe points (15), a count of exactly 4 the moderate points (8),
\* a count of exactly 3 the mild points (4), and a count below 3 adds 0.
C24_ConsecutiveAtLeast ==
    fn = "_calculate_heuristic_score" =>
        ret.consecutive_days_contribution =
            C24_PointsAtLeast(args.features.consecutive_training_days,
                              args.config.training_load)

\* five days in a row under the default thresholds add the moderate 8
\* points, four days the mild 4 points: the comparison is strict
C24_FiveDaysModerate ==
    /\ fn = "_calculate_heuristic_score"
    /\ args.config.training_load = TrainingLoadConfig
    /\ args.features.consecutive_training_days = 5
    /\ ret.consecutive_days_contribution = 8

\* three days add nothing and six days add the severe 15 points
C24_SixDaysSevere ==
    /\ fn = "_calculate_heuristic_score"
    /\ args.config.training_load = TrainingLoadConfig
    /\ args.features.consecutive_training_days = 6
    /\ ret.consecutive_days_contribution = 15

C24_ThreeDaysNothing ==
    /\ fn = "_calculate_heuristic_score"
    /\ args.config.training_load = TrainingLoadConfig
    /\ args.features.consecutive_training_days = 3
    /\ ret.consecutive_days_contribution = 0

\* the caps of the triggered rules the returned verdict lists
VerdictCaps ==
    { r.max_allowed_intensity :
        r \in SeqToSet(Val(ret.verdict).triggered_safety_rules) } \ { NONE }

\* a recommendation is within a cap when it names no zone or a zone that is
\* not above the cap in Z1 < Z2 < tempo < threshold < VO2 < max
C23_Within(rec, cap) ==
    rec.intensity # NONE => C12_Tier[rec.intensity] <= C12_Tier[cap]

\* C23: for every verdict the pipeline returns whose safety evaluation
\* carries an intensity cap, neither recommendation has an intensity zone
\* above the cap.
C23_RecommendationsWithinCap ==
    VerdictReturned =>
        \A cap \in VerdictCaps :
            /\ C23_Within(Val(ret.verdict).recommendation_a, cap)
            /\ C23_Within(Val(ret.verdict).recommendation_b, cap)

\* pain of 5 triggers R1 alone, which caps the intensity at Z2, and the
\* bike session planned at max is recommended above that cap
C23_AboveCapRecommended ==
    /\ VerdictReturned
    /\ build_features(args.db).pain_score = 5
    /\ PlannedOf.planned_sport = "bike"
    /\ PlannedOf.planned_intensity = "max"
    /\ Len(Val(ret.verdict).triggered_safety_rules) = 1
    /\ Val(ret.verdict).triggered_safety_rules[1].rule_id = "R1"
    /\ VerdictCaps = { "Z2" }
    /\ Val(ret.verdict).recommendation_a.sport_type = "bike"
    /\ Val(ret.verdict).recommendation_a.intensity \in { "VO2", "max" }

\* ------------------------------------------------------------------------
\* The normalized signals (C25)
\* ------------------------------------------------------------------------
\* the day's aggregate has the raw value and a non-null baseline mean
C25_RawAndMean(raw, mean) ==
    /\ args.db.metrics # Absent
    /\ Val(args.db.metrics)[raw] # Absent
    /\ Val(args.db.metrics)[mean] # Absent

\* the HRV baseline also needs a non-null, non-zero std
C25_HrvAvailable ==
    /\ C25_RawAndMean("hrv_rmssd", "hrv_baseline_mean")
    /\ Val(args.db.metrics).hrv_baseline_std # Absent
    /\ Val(Val(args.db.metrics).hrv_baseline_std) # 0

\* the signal is present with its flag false if available, and absent with
\* its flag true otherwise
C25_Tracks(available, signal, missing) ==
    IF available THEN signal # Absent /\ ~missing ELSE signal = Absent /\ missing

\* C25: after build_features, each of hrv_z, rhr_delta and sleep_delta is
\* present with its missing flag false if and only if the day's raw value
\* and a valid baseline (a non-null mean and, for HRV, a non-null, non-zero
\* std) are both available; otherwise the signal is absent and its flag true.
C25_SignalIffBaseline ==
    (fn = "build_features") =>
        /\ C25_Tracks(C25_HrvAvailable, ret.hrv_z, ret.missing_hrv)
        /\ C25_Tracks(C25_RawAndMean("resting_hr", "rhr_baseline_mean"),
                      ret.rhr_delta, ret.missing_rhr)
        /\ C25_Tracks(C25_RawAndMean("sleep_duration_minutes", "sleep_baseline_mean"),
                      ret.sleep_delta, ret.missing_sleep)

\* with the raw HRV and the baseline mean but no std, hrv_z is 0.0 and the
\* flag is false
C25_NullStdGivesZero ==
    /\ fn = "build_features"
    /\ C25_RawAndMean("hrv_rmssd", "hrv_baseline_mean")
    /\ Val(args.db.metrics).hrv_rmssd = Some(30)
    /\ Val(args.db.metrics).hrv_baseline_std = Absent
    /\ ret.hrv_z = Some(0)
    /\ ~ret.missing_hrv

\* the same with a std of zero
C25_ZeroStdGivesZero ==
    /\ fn = "build_features"
    /\ C25_RawAndMean("hrv_rmssd", "hrv_baseline_mean")
    /\ Val(args.db.metrics).hrv_baseline_std = Some(0)
    /\ ret.hrv_z = Some(0)
    /\ ~ret.missing_hrv

\* resting HR and sleep follow the raw value and the mean exactly
C25_RhrAndSleepTrack ==
    (fn = "build_features") =>
        /\ C25_Tracks(C25_RawAndMean("resting_hr", "rhr_baseline_mean"),
                      ret.rhr_delta, ret.missing_rhr)
        /\ C25_Tracks(C25_RawAndMean("sleep_duration_minutes", "sleep_baseline_mean"),
                      ret.sleep_delta, ret.missing_sleep)

\* ------------------------------------------------------------------------
\* The derived load (C26, C30)
\* ------------------------------------------------------------------------
\* the day's aggregate supplies none of acute load, chronic load and acwr
NoLoadSupplied ==
    \/ args.db.metrics = Absent
    \/ /\ Val(args.db.metrics).acute_load_7d = Absent
       /\ Val(args.db.metrics).chronic_load_28d = Absent
       /\ Val(args.db.metrics).acwr = Absent

\* build_features returned with a workout inside the 28 days of the query
LoadDerived ==
    /\ fn = "build_features"
    /\ \E i \in 1..Len(args.db.workouts) :
           args.db.workouts[i].day >= 0 /\ args.db.workouts[i].day <= 28

\* the sum of TRIMP over the workouts of the n calendar days ending today,
\* today included: the days 0 .. n - 1 before today
RECURSIVE C26_SumOfDays(_, _)
C26_SumOfDays(workouts, n) ==
    IF workouts = << >> THEN 0
    ELSE (IF Head(workouts).day >= 0 /\ Head(workouts).day < n
               /\ Head(workouts).trimp # Absent
          THEN Val(Head(workouts).trimp) ELSE 0)
         + C26_SumOfDays(Tail(workouts), n)

\* C26: when the daily aggregate supplies no load metrics, acute_load_7d is
\* the sum of TRIMP over the workouts of the 7 calendar days ending at the
\* target date (inclusive), chronic_load_28d the same sum over the trailing
\* 28 days, and acwr is acute / chronic when chronic > 0; one workout of
\* TRIMP 100 on each of the ten days ending today gives 700, 1000 and 0.7.
C26_SevenAndTwentyEightDays ==
    (LoadDerived /\ NoLoadSupplied) =>
        /\ ret.acute_load_7d = Some(C26_SumOfDays(args.db.workouts, 7))
        /\ ret.chronic_load_28d = Some(C26_SumOfDays(args.db.workouts, 28))
        /\ C26_SumOfDays(args.db.workouts, 28) > 0 =>
               ret.acwr = Some((100 * C26_SumOfDays(args.db.workouts, 7))
                               \div C26_SumOfDays(args.db.workouts, 28))
        /\ args.db.workouts = TenDailyWorkouts =>
               /\ ret.acute_load_7d = Some(700)
               /\ ret.chronic_load_28d = Some(1000)
               /\ ret.acwr = Some(70)

\* the ten daily workouts give an acute load of 800 and an ACWR of 0.8: the
\* window "start <= date <= target" with start = target - 7 has eight days
C26_TenDaysGiveEightHundred ==
    /\ LoadDerived /\ NoLoadSupplied
    /\ args.db.workouts = TenDailyWorkouts
    /\ ret.acute_load_7d = Some(800)
    /\ ret.chronic_load_28d = Some(1000)
    /\ ret.acwr = Some(80)

\* a workout 28 days back is inside the chronic window of 29 days
C26_DayTwentyEightCounted ==
    /\ LoadDerived /\ NoLoadSupplied
    /\ Len(args.db.workouts) = 1
    /\ args.db.workouts[1].day = 28
    /\ ret.chronic_load_28d = Some(100)

\* what the code computes: the sums over today and the 7 and 28 days before
C26_EightAndTwentyNineDays ==
    (LoadDerived /\ NoLoadSupplied) =>
        /\ ret.acute_load_7d = Some(C26_SumOfDays(args.db.workouts, 8))
        /\ ret.chronic_load_28d = Some(C26_SumOfDays(args.db.workouts, 29))

\* the query of _add_load_features returns a workout
WorkoutsQueried ==
    \E i \in 1..Len(args.db.workouts) :
        args.db.workouts[i].day >= 0 /\ args.db.workouts[i].day <= 28

\* C30: when acute_load_7d and chronic_load_28d are both derived from the
\* workout history (the aggregate supplies no load metric) and no TRIMP is
\* negative, the acute load is at most the chronic load, so the derived ACWR
\* is never above 1.0 and never in the warning, elevated or critical band of
\* the ACWR contribution.
C30_DerivedAcwrAtMostOne ==
    /\ (LoadDerived /\ NoLoadSupplied) =>
           /\ Val(ret.acute_load_7d) <= Val(ret.chronic_load_28d)
           /\ ret.acwr # Absent => Val(ret.acwr) <= 100
    /\ (VerdictReturned /\ WorkoutsQueried /\ NoLoadSupplied) =>
           /\ build_features(args.db).acwr # Absent =>
                  /\ Val(build_features(args.db).acwr) <= 100
                  /\ Val(build_features(args.db).acwr) <= ScorerConfig.acwr.warning_threshold
           /\ Val(ret.verdict).score_breakdown.acwr
                  \in { 0, ScorerConfig.acwr.detraining_points }

\* a history inside the acute window alone gives a derived ACWR of exactly 1.0
C30_Witness ==
    /\ LoadDerived /\ NoLoadSupplied
    /\ Len(args.db.workouts) = 2
    /\ args.db.workouts[1].day = 1
    /\ args.db.workouts[2].day = 7
    /\ ret.acute_load_7d = Some(200)
    /\ ret.chronic_load_28d = Some(200)
    /\ ret.acwr = Some(100)

\* the session evaluated on a derived ACWR below the detraining threshold
C30_SessionReached ==
    /\ VerdictReturned /\ WorkoutsQueried /\ NoLoadSupplied
    /\ build_features(args.db).acute_load_7d = Some(500)
    /\ build_features(args.db).chronic_load_28d = Some(1000)
    /\ build_features(args.db).acwr = Some(50)
    /\ Val(ret.verdict).score_breakdown.acwr = ScorerConfig.acwr.detraining_points

\* ------------------------------------------------------------------------
\* The substitute of a blocked sport (C28)
\* ------------------------------------------------------------------------
\* a yellow engine was asked for a sport that is blocked
C28_EngineCase ==
    /\ fn = "generate_recommendations"
    /\ args.self.risk_level = "yellow"
    /\ args.planned_sport \in args.self.safety_eval.blocked_sports

\* C28: in the YELLOW branch, when the planned sport is in the blocked-sports
\* set, Recommendation A's sport is a non-blocked sport whose impact score is
\* the lowest among all non-blocked sports, and Recommendation A is flagged
\* as modified.
C28_LowestImpactSubstitute ==
    C28_EngineCase =>
        /\ ret[1].sport_type \in SportType \ args.self.safety_eval.blocked_sports
        /\ \A sport \in SportType \ args.self.safety_eval.blocked_sports :
               get_sport_impact_score(ret[1].sport_type) <= get_sport_impact_score(sport)
        /\ ret[1].is_original_plan_modified

\* with run blocked and walk free, the substitute of the planned run is the
\* bike, of low impact, not the walk of very low impact
C28_BikeBeforeWalk ==
    /\ C28_EngineCase
    /\ args.planned_sport = "run"
    /\ args.self.safety_eval.blocked_sports = { "football", "run", "hyrox" }
    /\ ret[1].sport_type = "bike"
    /\ ret[1].is_original_plan_modified
    /\ get_sport_impact_score("walk") < get_sport_impact_score("bike")

\* with bike, swim, walk and gym blocked the substitute is the blocked walk
C28_BlockedWalkSubstituted ==
    /\ C28_EngineCase
    /\ args.self.safety_eval.blocked_sports = { "bike", "swim", "walk", "gym" }
    /\ ret[1].sport_type = "walk"

\* the substitute is flagged in every case
C28_SubstituteFlagged ==
    C28_EngineCase => ret[1].is_original_plan_modified

\* ------------------------------------------------------------------------
\* The factors against the score (C29)
\* ------------------------------------------------------------------------
\* the entry of the score breakdown that holds the points of a factor
C29_SignalOf ==
    ("HRV below baseline" :> "hrv") @@ ("Elevated resting heart rate" :> "rhr")
    @@ ("Sleep deficit" :> "sleep") @@ ("High acute workload" :> "acwr")
    @@ ("Pain" :> "pain") @@ ("Soreness in target muscles" :> "target_soreness")
    @@ ("Consecutive training days" :> "consecutive_days")
    @@ ("Subjective fatigue" :> "fatigue")

\* the points the signal of a factor added to the score of the verdict
C29_PointsOf(name) == Val(ret.verdict).score_breakdown[C29_SignalOf[name]]

\* C29: every entry of the ranked factor list of _get_top_factors has a
\* strictly positive contribution, equal to the points the same signal added
\* to the score in _calculate_heuristic_score; a signal that adds 0 points is
\* never listed as a factor nor named in the main-factors clause of the
\* explanation.
C29_FactorsArePoints ==
    VerdictReturned =>
        /\ \A i \in 1..Len(Val(ret.verdict).top_factors) :
               /\ Val(ret.verdict).top_factors[i].contribution > 0
               /\ Val(ret.verdict).top_factors[i].contribution
                      = C29_PointsOf(Val(ret.verdict).top_factors[i].name)
        /\ \A i \in 1..Len(Val(ret.verdict).explanation_text.main_factors) :
               C29_PointsOf(Val(ret.verdict).explanation_text.main_factors[i]) # 0

\* a fatigue of 3, below the moderate threshold, adds 0 points and is listed
\* as "Subjective fatigue" with contribution 0, alone and so named as a main
\* factor
C29_ZeroFatigueListed ==
    /\ VerdictReturned
    /\ build_features(args.db).fatigue = 3
    /\ Val(ret.verdict).score_breakdown.fatigue = 0
    /\ Len(Val(ret.verdict).top_factors) = 1
    /\ Val(ret.verdict).top_factors[1].name = "Subjective fatigue"
    /\ Val(ret.verdict).top_factors[1].contribution = 0
    /\ Val(ret.verdict).explanation_text.main_factors = << "Subjective fatigue" >>

\* every factor but the fatigue factor carries the points of its signal
C29_OtherFactorsArePoints ==
    VerdictReturned =>
        \A i \in 1..Len(Val(ret.verdict).top_factors) :
            Val(ret.verdict).top_factors[i].name # "Subjective fatigue" =>
                /\ Val(ret.verdict).top_factors[i].contribution > 0
                /\ Val(ret.verdict).top_factors[i].contribution
                       = C29_PointsOf(Val(ret.verdict).top_factors[i].name)

\* ------------------------------------------------------------------------
\* A caller that changes the lists of a returned SafetyRuleResult
\* ------------------------------------------------------------------------
\* longest module-level list of high-impact sports
MaxHighImpact == 4

RuleFunctions ==
    { "evaluate_r0_acute_pain", "evaluate_r1_moderate_pain_impact", "evaluate_r2_doms",
      "evaluate_r3_recovery_markers", "evaluate_r4_two_a_day" }

\* "result.blocked_sports = HIGH_IMPACT_SPORTS": the list of a triggered R1
\* result is the module-level list itself; every other list is created by
\* the call (default_factory=list, a list comprehension)
SharesModuleList(rule, result, list_field) ==
    /\ rule = "evaluate_r1_moderate_pain_impact"
    /\ result.triggered
    /\ list_field = "blocked_sports"

\* the caller has changed the list list_field of the returned result to list
ListChanged(list_field, list) ==
    /\ fn' = "caller"
    /\ args' = [ rule |-> fn, list_field |-> list_field,
                 shared |-> SharesModuleList(fn, ret, list_field),
                 HIGH_IMPACT_SPORTS |-> HIGH_IMPACT_SPORTS ]
    /\ ret' = [ ret EXCEPT ![list_field] = list ]
    /\ HIGH_IMPACT_SPORTS' = IF SharesModuleList(fn, ret, list_field) THEN list
                             ELSE HIGH_IMPACT_SPORTS
    /\ UNCHANGED << default_config, scorer >>

\* result.blocked_sports.append(SportType.WALK),
\* result.blocked_muscle_regions.append(MuscleRegion.CORE)
AppendToReturnedList ==
    /\ fn \in RuleFunctions
    /\ \E list_field \in { "blocked_sports", "blocked_muscle_regions" } :
         /\ SharesModuleList(fn, ret, list_field) => Len(ret[list_field]) < MaxHighImpact
         /\ ListChanged(list_field,
                        Append(ret[list_field],
                               IF list_field = "blocked_sports" THEN "walk" ELSE "core"))

\* result.blocked_sports.clear(), result.blocked_muscle_regions.clear()
ClearReturnedList ==
    /\ fn \in RuleFunctions
    /\ \E list_field \in { "blocked_sports", "blocked_muscle_regions" } :
         ListChanged(list_field, << >>)

OwnershipNext ==
    \/ EvaluateR0
    \/ EvaluateR1
    \/ EvaluateR2
    \/ EvaluateR3
    \/ EvaluateR4
    \/ AppendToReturnedList
    \/ ClearReturnedList
    \/ Return

OwnershipSpec == Init /\ [][OwnershipNext]_vars

\* ------------------------------------------------------------------------
\* The lists of a rule result (C27)
\* ------------------------------------------------------------------------
\* C27: every SafetyRuleResult returned by a rule owns its blocked-sports and
\* blocked-muscle lists: after any sequence of evaluations, appending to or
\* clearing the lists of a returned result changes neither the module-level
\* list of high-impact sports nor the result of a later evaluation of R0-R4.
C27_ResultsOwnTheirLists ==
    /\ HIGH_IMPACT_SPORTS = << "football", "run", "hyrox" >>
    /\ fn = "evaluate_r1_moderate_pain_impact" =>
           ret = evaluate_r1_moderate_pain_impact(args.pain_score, args.planned_sport,
                                                  SafetyConfigInEffect,
                                                  << "football", "run", "hyrox" >>)

\* after a caller cleared the list of a triggered R1 result, the module-level
\* list is empty and R1 on a pain of 5 and a planned run blocks no sport and
\* suggests no yellow
C27_ClearedListBlocksNothing ==
    /\ fn = "evaluate_r1_moderate_pain_impact"
    /\ args.pain_score = 5
    /\ args.planned_sport = "run"
    /\ HIGH_IMPACT_SPORTS = << >>
    /\ ret.triggered
    /\ ret.blocked_sports = << >>
    /\ ret.override_risk_level = NONE

\* after a caller appended the walk, R1 blocks the walk and suggests yellow
\* for a planned walk
C27_AppendedWalkBlocked ==
    /\ fn = "evaluate_r1_moderate_pain_impact"
    /\ args.pain_score = 5
    /\ args.planned_sport = "walk"
    /\ HIGH_IMPACT_SPORTS = << "football", "run", "hyrox", "walk" >>
    /\ ret.blocked_sports = << "football", "run", "hyrox", "walk" >>
    /\ ret.override_risk_level = "yellow"

\* every list but the blocked sports of a triggered R1 result is owned
C27_OtherListsOwned ==
    (fn = "caller" /\ ~ args.shared) => HIGH_IMPACT_SPORTS = args.HIGH_IMPACT_SPORTS

C27_MuscleListChanged ==
    /\ fn = "caller"
    /\ args.rule = "evaluate_r2_doms"
    /\ args.list_field = "blocked_muscle_regions"
    /\ ret.triggered
    /\ ret.blocked_muscle_regions = << >>

\* ------------------------------------------------------------------------
\* evaluate_session among other tasks of the event loop
\*
\* The call is suspended at "await self.feature_builder.build_features(...)";
\* the rules, the score and the recommendations run after it without another
\* await.  Other tasks run between the construction of the scorer and the
\* call, and while the call is suspended.
\* ------------------------------------------------------------------------
\* scorer.evaluate_session(planned_session) up to its await
AwaitBuildFeatures ==
    /\ fn = "RiskScorer"
    /\ \E db \in SessionDatabases, planned_session \in PlannedSessions :
         /\ fn' = "await build_features"
         /\ args' = [ config |-> args.config, db |-> db,
                      planned_session |-> planned_session ]
    /\ ret' = << >>
    /\ UNCHANGED << default_config, HIGH_IMPACT_SPORTS, scorer >>

\* set_scoring_config(config) run by another task at an await point
OtherTaskSetsConfig ==
    /\ fn \in { "RiskScorer", "await build_features" }
    /\ \E config \in InstalledConfigs : default_config' = Some(config)
    /\ UNCHANGED << fn, args, ret, HIGH_IMPACT_SPORTS, scorer >>

\* evaluate_session from the built features to its return
ResumeEvaluateSession ==
    /\ fn = "await build_features"
    /\ Evaluated(evaluate_session(Val(scorer), args.db, args.planned_session,
                                  default_config, HIGH_IMPACT_SPORTS),
                 [ config |-> args.config, db |-> args.db,
                   planned_session |-> args.planned_session,
                   call |-> 1, fresh |-> TRUE,
                   before |-> StateBefore(Val(scorer)), first |-> Absent ])
    /\ UNCHANGED HIGH_IMPACT_SPORTS

ConcurrentNext ==
    \/ NewRiskScorer
    \/ AwaitBuildFeatures
    \/ OtherTaskSetsConfig
    \/ ResumeEvaluateSession
    \/ SetScoringConfig
    \/ Return

ConcurrentSpec == Init /\ [][ConcurrentNext]_vars

\* ------------------------------------------------------------------------
\* One configuration per evaluation (C22)
\* ------------------------------------------------------------------------
\* the configuration the safety rules of the served call read
C22_RulesConfig == get_scoring_config(args.before.default_config)

\* C22: within one evaluate_session call the safety rules and the heuristic
\* scorer read their thresholds from one and the same ScoringConfig, under
\* every interleaving of set_scoring_config calls of other tasks at the await
\* points of the call: no verdict mixes the safety thresholds of one
\* configuration with the scoring weights of another.
C22_OneConfigPerCall ==
    VerdictReturned =>
        /\ C22_RulesConfig = ScorerConfig
        /\ ret.verdict = VerdictUnder(Some(ScorerConfig))

\* the same for the scorers constructed without a configuration of their own
C22_OneConfigWithoutInjection ==
    (VerdictReturned /\ args.config = Absent) =>
        /\ C22_RulesConfig = ScorerConfig
        /\ ret.verdict = VerdictUnder(Some(ScorerConfig))

\* a scorer constructed without a configuration took the default one; another
\* task installed the custom configuration before the rules ran; on a pain of
\* 7 the rules used the custom thresholds (R0 silent at its threshold of 8, R1
\* triggered up to 7) and the score the default weight of the pain
C22_MixedVerdict ==
    /\ VerdictReturned
    /\ args.config = Absent
    /\ ScorerConfig = ScoringConfig
    /\ C22_RulesConfig = CustomConfig
    /\ build_features(args.db).pain_score = 7
    /\ Val(ret.verdict).triggered_safety_rules[1].rule_id = "R1"
    /\ Val(ret.verdict).score_breakdown.pain = 7 * ScoringConfig.pain.points_per_level
    /\ ScoringConfig.pain.points_per_level # CustomConfig.pain.points_per_level
    /\ Val(VerdictUnder(Some(ScorerConfig))).triggered_safety_rules[1].rule_id = "R0"

=============================================================================
